---- MODULE Spec2Model ----
(***************************************************************************)
(* Model of the Denon/Marantz AVR integration driver                       *)
(*   src/intg-denonavr/media_player.py  (DenonMediaPlayer, state_from_avr) *)
(*   src/intg-denonavr/driver.py        (hub and receiver event handlers)  *)
(*                                                                         *)
(* Python values are modelled wrapped: None is the empty tuple and a       *)
(* value v is the one-element tuple <<v>>, so that values of different     *)
(* Python types (bool, int, str, list) and None can be compared as the     *)
(* code compares them.  A dict is a function whose domain is its key set.  *)
(***************************************************************************)
EXTENDS Integers, Sequences, FiniteSets, TLC

VARIABLES
    entity,     \* the DenonMediaPlayer under test (SpecSync, SpecCmd)
    update,     \* the update mapping handed to filter_changed_attributes
    delta,      \* the mapping filter_changed_attributes returned
    phase,      \* position of the caller
    receiver,   \* live fields of the avr.DenonDevice the entity is bound to
    cmd,        \* the last command dispatched to the entity: <<cmd_id, params>>
    result,     \* what that dispatch returned (or the exception it raised)
    calls,      \* the operations that dispatch invoked on the receiver
    devices,                \* config.devices: the identifiers that have a configuration
    _configured_avrs,       \* driver._configured_avrs: avr_id -> reference of its receiver
    receivers,              \* every avr.DenonDevice constructed so far, by reference
    available_entities,     \* api.available_entities: entity id -> entity
    configured_entities,    \* api.configured_entities: entity id -> entity
    shared,                 \* entity ids whose available and configured entity are one object
    _R2_IN_STANDBY,         \* driver._R2_IN_STANDBY
    tasks,                  \* background tasks created and not yet finished
    events,                 \* receiver events emitted whose handler has not yet run
    suspended,              \* handlers suspended at an await
    lastOp,                 \* the handler that ran in the last step, and its errors
    writes,                 \* the update_attributes calls that handler issued
    standby,                \* on_r2_enter_standby: where its loop over the receivers stands
    poller,                 \* receiver_status_poller: where it stands, refreshes in flight
    limits                  \* how many receiver objects, scheduled events and tasks are explored,
                            \* and whether the scheduled event handlers are followed

syncVars == <<entity, update, delta, phase>>
cmdVars == <<receiver, cmd, result, calls>>
driverVars == <<devices, _configured_avrs, receivers, available_entities, configured_entities,
                shared, _R2_IN_STANDBY, tasks, events, suspended, lastOp, writes,
                standby, poller, limits>>
vars == <<entity, update, delta, phase, receiver, cmd, result, calls,
          devices, _configured_avrs, receivers, available_entities, configured_entities,
          shared, _R2_IN_STANDBY, tasks, events, suspended, lastOp, writes,
          standby, poller, limits>>

\* the driver of a specification that exercises one entity only: not started
DriverIdle ==
    /\ devices = {}
    /\ _configured_avrs = <<>>
    /\ receivers = <<>>
    /\ available_entities = <<>>
    /\ configured_entities = <<>>
    /\ shared = {}
    /\ _R2_IN_STANDBY = FALSE
    /\ tasks = {}
    /\ events = <<>>
    /\ suspended = {}
    /\ lastOp = <<"none">>
    /\ writes = <<>>
    /\ standby = <<>>
    /\ poller = <<>>
    /\ limits = <<>>

-----------------------------------------------------------------------------
(* Python values *)

None == <<>>
Some(v) == <<v>>
Val(x) == x[1]

EmptyDict == <<>>
\* d[k] = v on a dict
Put(d, k, v) == [x \in (DOMAIN d) \cup {k} |-> IF x = k THEN v ELSE d[x]]
\* dict.update(other) / update_attributes: every key of other overwrites
Merge(d, other) ==
    [x \in (DOMAIN d) \cup (DOMAIN other) |-> IF x \in DOMAIN other THEN other[x] ELSE d[x]]

-----------------------------------------------------------------------------
(* ucapi.media_player enumerations used by media_player.py *)

\* ucapi.media_player.Attributes
Attributes_STATE == "state"
Attributes_VOLUME == "volume"
Attributes_MUTED == "muted"
Attributes_MEDIA_IMAGE_URL == "media_image_url"
Attributes_MEDIA_TITLE == "media_title"
Attributes_MEDIA_ARTIST == "media_artist"
Attributes_MEDIA_ALBUM == "media_album"
Attributes_MEDIA_TYPE == "media_type"
Attributes_SOURCE == "source"
Attributes_SOURCE_LIST == "source_list"
Attributes_SOUND_MODE == "sound_mode"
Attributes_SOUND_MODE_LIST == "sound_mode_list"

\* ucapi.media_player.States, the entity state enumeration
States == {"ON", "OFF", "PAUSED", "PLAYING", "UNAVAILABLE", "UNKNOWN"}

\* avr.States, the receiver state enumeration (a different type than States)
AvrStates == {"avr.ON", "avr.OFF", "avr.PAUSED", "avr.PLAYING", "avr.UNAVAILABLE", "avr.UNKNOWN"}

\* ucapi.media_player.Features that the model distinguishes
SELECT_SOUND_MODE == "select_sound_mode"
STOP_FEATURE == "stop"

-----------------------------------------------------------------------------
(* media_player.py: state mapping *)

MEDIA_PLAYER_STATE_MAPPING_NoPaused ==
    [s \in {"avr.ON", "avr.OFF", "avr.PLAYING", "avr.UNAVAILABLE", "avr.UNKNOWN"} |->
        CASE s = "avr.ON" -> "ON"
          [] s = "avr.OFF" -> "OFF"
          [] s = "avr.PLAYING" -> "PLAYING"
          [] s = "avr.UNAVAILABLE" -> "UNAVAILABLE"
          [] s = "avr.UNKNOWN" -> "UNKNOWN"]

MEDIA_PLAYER_STATE_MAPPING ==
    [s \in {"avr.ON", "avr.OFF", "avr.PAUSED", "avr.PLAYING", "avr.UNAVAILABLE", "avr.UNKNOWN"} |->
        CASE s = "avr.ON" -> "ON"
          [] s = "avr.OFF" -> "OFF"
          [] s = "avr.PAUSED" -> "PAUSED"
          [] s = "avr.PLAYING" -> "PLAYING"
          [] s = "avr.UNAVAILABLE" -> "UNAVAILABLE"
          [] s = "avr.UNKNOWN" -> "UNKNOWN"]

\* state_from_avr(avr_state): avr_state is any Python value, None included
state_from_avr(avr_state) ==
    IF avr_state # None /\ Val(avr_state) \in DOMAIN MEDIA_PLAYER_STATE_MAPPING
    THEN Some(MEDIA_PLAYER_STATE_MAPPING[Val(avr_state)])
    ELSE Some("UNKNOWN")

-----------------------------------------------------------------------------
(* media_player.py: DenonMediaPlayer *)

\* DenonMediaPlayer.__init__: the attributes and features of a new entity.
\* device is an AvrDevice (support_sound_mode, is_denon, use_telnet),
\* receiver the bound avr.DenonDevice (or None).
InitialAttributes(device) ==
    LET base == (Attributes_STATE :> Some("UNAVAILABLE")) @@ (Attributes_VOLUME :> Some(0)) @@ (Attributes_MUTED :> Some(FALSE))
                @@ (Attributes_MEDIA_IMAGE_URL :> Some("")) @@ (Attributes_MEDIA_TITLE :> Some(""))
                @@ (Attributes_MEDIA_ARTIST :> Some("")) @@ (Attributes_MEDIA_ALBUM :> Some(""))
                @@ (Attributes_SOURCE :> Some("")) @@ (Attributes_SOURCE_LIST :> Some(<<>>))
    IN  IF device.support_sound_mode
        THEN base @@ (Attributes_SOUND_MODE :> Some("")) @@ (Attributes_SOUND_MODE_LIST :> Some(<<>>))
        ELSE base

InitialFeatures(device) ==
    (IF device.support_sound_mode THEN {SELECT_SOUND_MODE} ELSE {})
    \cup (IF device.is_denon THEN {STOP_FEATURE} ELSE {})

\* variant: the recorded value is not compared
_key_update_helper_AlwaysPut(self, key, value, attributes) ==
    IF value = None
    THEN attributes
    ELSE Put(attributes, key, value)

\* DenonMediaPlayer._key_update_helper
_key_update_helper(self, key, value, attributes) ==
    IF value = None
    THEN attributes
    ELSE IF key \in DOMAIN self.attributes
         THEN IF self.attributes[key] # value
              THEN Put(attributes, key, value)
              ELSE attributes
         ELSE Put(attributes, key, value)

\* the attributes the loop of filter_changed_attributes walks, in its order
LoopAttributes ==
    <<Attributes_MEDIA_ARTIST, Attributes_MEDIA_ALBUM, Attributes_MEDIA_IMAGE_URL, Attributes_MEDIA_TITLE, Attributes_MUTED, Attributes_SOURCE, Attributes_VOLUME>>

RECURSIVE FilterLoop(_, _, _, _)
FilterLoop(self, upd, attributes, i) ==
    IF i > Len(LoopAttributes)
    THEN attributes
    ELSE LET attr == LoopAttributes[i]
         IN  FilterLoop(self, upd,
                        IF attr \in DOMAIN upd
                        THEN _key_update_helper(self, attr, upd[attr], attributes)
                        ELSE attributes,
                        i + 1)

\* the list attributes are compared directly, and only when already recorded
FilterList(self, upd, key, attributes) ==
    IF key \in DOMAIN upd /\ key \in DOMAIN self.attributes /\ upd[key] # self.attributes[key]
    THEN Put(attributes, key, upd[key])
    ELSE attributes

\* variant: the feature of the entity is not consulted
FilterSoundMode_NoFeatureCheck(self, upd, attributes) ==
    LET a1 == IF Attributes_SOUND_MODE \in DOMAIN upd
              THEN _key_update_helper(self, Attributes_SOUND_MODE, upd[Attributes_SOUND_MODE], attributes)
              ELSE attributes
    IN  FilterList(self, upd, Attributes_SOUND_MODE_LIST, a1)

FilterSoundMode(self, upd, attributes) ==
    IF SELECT_SOUND_MODE \in self.features
    THEN LET a1 == IF Attributes_SOUND_MODE \in DOMAIN upd
                   THEN _key_update_helper(self, Attributes_SOUND_MODE, upd[Attributes_SOUND_MODE], attributes)
                   ELSE attributes
         IN  FilterList(self, upd, Attributes_SOUND_MODE_LIST, a1)
    ELSE attributes

\* the keys forced to "" when the delta sets the state to OFF
ClearedOnOff ==
    {Attributes_MEDIA_IMAGE_URL, Attributes_MEDIA_ALBUM, Attributes_MEDIA_ARTIST, Attributes_MEDIA_TITLE, Attributes_MEDIA_TYPE, Attributes_SOURCE}

\* variant: a key the diff already put into the delta keeps its value
FilterOff_KeepsSupplied(attributes) ==
    IF Attributes_STATE \in DOMAIN attributes /\ attributes[Attributes_STATE] = Some("OFF")
    THEN Merge([k \in ClearedOnOff |-> Some("")], attributes)
    ELSE attributes

FilterOff(attributes) ==
    IF Attributes_STATE \in DOMAIN attributes /\ attributes[Attributes_STATE] = Some("OFF")
    THEN Merge(attributes, [k \in ClearedOnOff |-> Some("")])
    ELSE attributes

\* DenonMediaPlayer.filter_changed_attributes(update)
filter_changed_attributes(self, upd) ==
    LET a0 == IF Attributes_STATE \in DOMAIN upd
              THEN _key_update_helper(self, Attributes_STATE, state_from_avr(upd[Attributes_STATE]), EmptyDict)
              ELSE EmptyDict
        a1 == FilterLoop(self, upd, a0, 1)
        a2 == FilterList(self, upd, Attributes_SOURCE_LIST, a1)
        a3 == FilterSoundMode(self, upd, a2)
    IN  FilterOff(a3)

-----------------------------------------------------------------------------
(* media_player.py: DenonMediaPlayer.command *)

\* simplecommand.py: the simple commands per device flavor.  The shared
\* commands, one telnet-only command and one Denon-only command stand for
\* the members of each class.
ALL_COMMANDS == {"OUTPUT_1", "DIMMER_TOGGLE"}
ALL_COMMANDS_TELNET == ALL_COMMANDS \cup {"SPEAKER_PRESET_1"}
ALL_COMMANDS_DENON == ALL_COMMANDS \cup {"AUDIO_RESTORER_OFF"}
ALL_COMMANDS_TELNET_DENON == ALL_COMMANDS_TELNET \cup ALL_COMMANDS_DENON

\* DenonMediaPlayer.__init__: self.simple_commands
InitialSimpleCommands(device) ==
    IF device.is_denon
    THEN IF device.use_telnet THEN ALL_COMMANDS_TELNET_DENON ELSE ALL_COMMANDS_DENON
    ELSE IF device.use_telnet THEN ALL_COMMANDS_TELNET ELSE ALL_COMMANDS

\* ucapi.media_player.Commands handled by a case of their own
StructuredCommands ==
    {"play_pause", "stop", "next", "previous", "volume", "volume_up", "volume_down",
     "mute_toggle", "mute", "unmute", "on", "off", "toggle", "select_source",
     "select_sound_mode", "cursor_up", "cursor_down", "cursor_left", "cursor_right",
     "cursor_enter", "back", "menu", "context_menu", "info"}

\* ucapi.StatusCodes
StatusCodes == {"OK", "SERVICE_UNAVAILABLE", "NOT_IMPLEMENTED"}

\* the outcome of a dispatch: what it returned or raised, and the receiver
\* operations it invoked, each <<name, arguments>>
Outcome(res, ops) == [result |-> res, calls |-> ops]
Call(op, args) == <<op, args>>
Raise(exception) == <<"raise", <<exception>>>>

\* params.get(key); params is None or a dict
ParamsGet(params, key) ==
    IF key \in DOMAIN Val(params) THEN Val(params)[key] ELSE None

\* variant: the receiver's live mute state is negated
MuteToggleArg_Live(self, rcv) == ~rcv.muted

\* not self.attributes[Attributes.MUTED]
MuteToggleArg(self, rcv) == ~Val(self.attributes[Attributes_MUTED])

\* variant: every identifier without a case of its own is forwarded
IsSimpleCommand_Any(cmd_id) == TRUE

\* case cmd if cmd in ALL_COMMANDS_TELNET_DENON
IsSimpleCommand(cmd_id) == cmd_id \in ALL_COMMANDS_TELNET_DENON

\* variant: the binding is not checked
ReceiverMissing_Never(self) == FALSE

\* if self._receiver is None
ReceiverMissing(self) == self._receiver = None

\* the receiver operation of a command: <<name, arguments>>, or the
\* exception raised while building the call
CommandCall(self, cmd_id, params, rcv) ==
    CASE cmd_id = "play_pause" -> Call("play_pause", <<>>)
      [] cmd_id = "stop" -> Call("stop", <<>>)
      [] cmd_id = "next" -> Call("next", <<>>)
      [] cmd_id = "previous" -> Call("previous", <<>>)
      [] cmd_id = "volume" -> IF params = None THEN Raise("AttributeError")
                              ELSE Call("set_volume_level", <<ParamsGet(params, "volume")>>)
      [] cmd_id = "volume_up" -> Call("volume_up", <<>>)
      [] cmd_id = "volume_down" -> Call("volume_down", <<>>)
      [] cmd_id = "mute_toggle" -> IF Attributes_MUTED \in DOMAIN self.attributes
                                   THEN Call("mute", <<Some(MuteToggleArg(self, rcv))>>)
                                   ELSE Raise("KeyError")
      [] cmd_id = "mute" -> Call("mute", <<Some(TRUE)>>)
      [] cmd_id = "unmute" -> Call("mute", <<Some(FALSE)>>)
      [] cmd_id = "on" -> Call("power_on", <<>>)
      [] cmd_id = "off" -> Call("power_off", <<>>)
      [] cmd_id = "toggle" -> Call("power_toggle", <<>>)
      [] cmd_id = "select_source" -> IF params = None THEN Raise("AttributeError")
                                     ELSE Call("select_source", <<ParamsGet(params, "source")>>)
      [] cmd_id = "select_sound_mode" -> IF params = None THEN Raise("AttributeError")
                                         ELSE Call("select_sound_mode", <<ParamsGet(params, "mode")>>)
      [] cmd_id = "cursor_up" -> Call("cursor_up", <<>>)
      [] cmd_id = "cursor_down" -> Call("cursor_down", <<>>)
      [] cmd_id = "cursor_left" -> Call("cursor_left", <<>>)
      [] cmd_id = "cursor_right" -> Call("cursor_right", <<>>)
      [] cmd_id = "cursor_enter" -> Call("cursor_enter", <<>>)
      [] cmd_id = "back" -> Call("back", <<>>)
      [] cmd_id = "menu" -> Call("setup", <<>>)
      [] cmd_id = "context_menu" -> Call("options", <<>>)
      [] cmd_id = "info" -> Call("info", <<>>)
      [] OTHER -> Call("send_simple_command", <<Some(cmd_id)>>)

\* DenonMediaPlayer.command(cmd_id, params); rcv are the live fields of the
\* bound receiver and res the status code its operation returns
command(self, cmd_id, params, rcv, res) ==
    IF ReceiverMissing(self)
    THEN Outcome("SERVICE_UNAVAILABLE", <<>>)
    ELSE IF cmd_id \in StructuredCommands \/ IsSimpleCommand(cmd_id)
         THEN LET call == CommandCall(self, cmd_id, params, rcv)
              IN  IF call[1] = "raise"
                  THEN Outcome(call[2][1], <<>>)
                  ELSE IF self._receiver = None
                       THEN Outcome("AttributeError", <<>>)
                       ELSE Outcome(res, <<call>>)
         ELSE Outcome("NOT_IMPLEMENTED", <<>>)

-----------------------------------------------------------------------------
(* Inputs of the attribute synchronizer *)

\* bounds of the enumerated inputs
MaxUpdateKeys == 2
MaxChanged == 1

TextKeys ==
    {Attributes_MEDIA_ARTIST, Attributes_MEDIA_ALBUM, Attributes_MEDIA_IMAGE_URL,
     Attributes_MEDIA_TITLE, Attributes_SOURCE, Attributes_SOUND_MODE}
ListKeys == {Attributes_SOURCE_LIST, Attributes_SOUND_MODE_LIST}

\* the keys an update of the receiver may carry
UpdateKeys ==
    {Attributes_STATE, Attributes_VOLUME, Attributes_MUTED, Attributes_MEDIA_TYPE}
    \cup TextKeys \cup ListKeys

\* the values a recorded attribute can hold
RecordedDomain(key) ==
    CASE key = Attributes_STATE -> {Some(s) : s \in States}
      [] key = Attributes_VOLUME -> {Some(0), Some(30)}
      [] key = Attributes_MUTED -> {Some(FALSE), Some(TRUE)}
      [] key = Attributes_MEDIA_TYPE -> {Some("")}
      [] key \in TextKeys -> {Some(""), Some("a")}
      [] key \in ListKeys -> {Some(<<>>), Some(<<"CD">>)}

\* the values an update can supply: a receiver state (or a value outside
\* avr.States), scalars that may be None, lists
UpdateDomain(key) ==
    CASE key = Attributes_STATE -> {Some(s) : s \in AvrStates} \cup {Some("avr.undefined"), None}
      [] key = Attributes_VOLUME -> {Some(0), Some(30), None}
      [] key = Attributes_MUTED -> {Some(FALSE), Some(TRUE), None}
      [] key = Attributes_MEDIA_TYPE -> {Some("MUSIC")}
      [] key \in TextKeys -> {Some(""), Some("a"), None}
      [] key \in ListKeys -> {Some(<<>>), Some(<<"CD">>)}

RECURSIVE UpdatesOver(_)
UpdatesOver(K) ==
    IF K = {}
    THEN {EmptyDict}
    ELSE LET k == CHOOSE x \in K : TRUE
         IN  {Put(d, k, v) : d \in UpdatesOver(K \ {k}), v \in UpdateDomain(k)}

\* partial updates of at most MaxUpdateKeys keys
UpdateInputs ==
    UNION {UpdatesOver(K) : K \in {S \in SUBSET UpdateKeys : Cardinality(S) <= MaxUpdateKeys}}

\* the keys of the full snapshot on_avr_update builds for a None payload
SnapshotKeys == UpdateKeys \ {Attributes_MEDIA_TYPE}

\* receiver fields after power-on
ReceiverDefaults ==
    [k \in SnapshotKeys |->
        CASE k = Attributes_STATE -> Some("avr.ON")
          [] k = Attributes_VOLUME -> Some(0)
          [] k = Attributes_MUTED -> Some(FALSE)
          [] k \in TextKeys -> Some("")
          [] k \in ListKeys -> Some(<<>>)]

\* full snapshots of a receiver of which at most MaxChanged fields have moved
SnapshotInputs ==
    {Merge(ReceiverDefaults, c) :
        c \in UNION {UpdatesOver(K) : K \in {S \in SUBSET SnapshotKeys : Cardinality(S) <= MaxChanged}}}

RECURSIVE ChangesOver(_)
ChangesOver(K) ==
    IF K = {}
    THEN {EmptyDict}
    ELSE LET k == CHOOSE x \in K : TRUE
         IN  {Put(d, k, v) : d \in ChangesOver(K \ {k}), v \in RecordedDomain(k)}

\* the attribute mappings a media-player entity of the device can hold: the
\* constructor's, with at most MaxChanged keys rewritten by earlier deltas
RecordedInputs(device) ==
    LET init == InitialAttributes(device)
        keys == (DOMAIN init) \cup {Attributes_MEDIA_TYPE}
    IN  {Merge(init, c) :
            c \in UNION {ChangesOver(K) : K \in {S \in SUBSET keys : Cardinality(S) <= MaxChanged}}}

\* AvrDevice configurations (config.AvrDevice: the fields the entity reads)
AvrDevices ==
    [support_sound_mode : BOOLEAN, is_denon : BOOLEAN, use_telnet : BOOLEAN]

\* a DenonMediaPlayer as constructed for device, bound to a receiver, holding
\* attributes; the field device is a ghost: the configuration it was built from
DenonMediaPlayer(device, rcv, attributes) ==
    [entity_type |-> "media_player",
     _receiver |-> rcv,
     features |-> InitialFeatures(device),
     simple_commands |-> InitialSimpleCommands(device),
     attributes |-> attributes,
     device |-> device]

-----------------------------------------------------------------------------
(* SpecSync: filter_changed_attributes applied to enumerated inputs, then   *)
(* the caller's update_attributes (driver.py, on_avr_update)                *)

SyncDevices == {d \in AvrDevices : d.is_denon /\ ~d.use_telnet}

InitSync ==
    /\ \E d \in SyncDevices : \E a \in RecordedInputs(d) :
          entity = DenonMediaPlayer(d, Some("receiver"), a)
    /\ update \in UpdateInputs \cup SnapshotInputs
    /\ delta = EmptyDict
    /\ phase = "start"
    /\ receiver = [muted |-> FALSE]
    /\ cmd = None
    /\ result = "none"
    /\ calls = <<>>
    /\ DriverIdle

\* attributes = configured_entity.filter_changed_attributes(update)
Filter ==
    /\ phase = "start"
    /\ delta' = filter_changed_attributes(entity, update)
    /\ phase' = "filtered"
    /\ UNCHANGED <<entity, update, cmdVars, driverVars>>

\* if attributes: api.configured_entities.update_attributes(entity_id, attributes)
UpdateAttributes ==
    /\ phase = "filtered"
    /\ entity' = IF delta # EmptyDict
                 THEN [entity EXCEPT !.attributes = Merge(entity.attributes, delta)]
                 ELSE entity
    /\ phase' = "updated"
    /\ UNCHANGED <<update, delta, cmdVars, driverVars>>

NextSync == Filter \/ UpdateAttributes

SpecSync == InitSync /\ [][NextSync]_vars

-----------------------------------------------------------------------------
(* Claims about the attribute synchronizer (SpecSync) *)

\* the value the update proposes for a key: the state is mapped first
Proposed(upd, k) ==
    IF k = Attributes_STATE THEN state_from_avr(upd[k]) ELSE upd[k]

\* C2 as stated: the delta returned by filter_changed_attributes contains a
\* key if and only if the update supplies that key with a value different
\* from the recorded value, or the key is absent from the recorded attributes.
C2_DeltaIffDifferent ==
    phase = "filtered" =>
        \A k \in UpdateKeys :
            (k \in DOMAIN delta) <=>
                /\ k \in DOMAIN update
                /\ \/ k \notin DOMAIN entity.attributes
                   \/ entity.attributes[k] # Proposed(update, k)

\* the keys filter_changed_attributes compares for an entity
DiffedKeys(self) ==
    {Attributes_STATE, Attributes_MEDIA_ARTIST, Attributes_MEDIA_ALBUM,
     Attributes_MEDIA_IMAGE_URL, Attributes_MEDIA_TITLE, Attributes_MUTED,
     Attributes_SOURCE, Attributes_VOLUME, Attributes_SOURCE_LIST}
    \cup (IF self.device.support_sound_mode
          THEN {Attributes_SOUND_MODE, Attributes_SOUND_MODE_LIST}
          ELSE {})

KeyChanged(self, upd, k) ==
    /\ k \in DiffedKeys(self)
    /\ k \in DOMAIN upd
    /\ IF k \in {Attributes_SOURCE_LIST, Attributes_SOUND_MODE_LIST}
       THEN k \in DOMAIN self.attributes /\ self.attributes[k] # upd[k]
       ELSE /\ Proposed(upd, k) # None
            /\ \/ k \notin DOMAIN self.attributes
               \/ self.attributes[k] # Proposed(upd, k)

\* C2 as amended: with the state mapped through state_from_avr first, the
\* delta contains a key if and only if the key is one the entity compares
\* (sound-mode keys only with sound-mode support, media-type never), the
\* update supplies it with a value that is not None (a list: that is
\* recorded) and that differs from the recorded value or has no recorded
\* value, and the delta carries that value; except that a delta setting the
\* state to OFF holds "" for the six cleared keys whatever the update says.
C2_DeltaIffCompared ==
    phase = "filtered" =>
        LET off == /\ KeyChanged(entity, update, Attributes_STATE)
                   /\ Proposed(update, Attributes_STATE) = Some("OFF")
            cleared == {Attributes_MEDIA_IMAGE_URL, Attributes_MEDIA_ALBUM,
                        Attributes_MEDIA_ARTIST, Attributes_MEDIA_TITLE,
                        Attributes_MEDIA_TYPE, Attributes_SOURCE}
        IN  /\ DOMAIN delta \subseteq UpdateKeys
            /\ \A k \in UpdateKeys :
                  IF off /\ k \in cleared
                  THEN k \in DOMAIN delta /\ delta[k] = Some("")
                  ELSE /\ (k \in DOMAIN delta) <=> KeyChanged(entity, update, k)
                       /\ k \in DOMAIN delta => delta[k] = Proposed(update, k)

\* C2 witness: a delta that holds one key the update changed and lacks a key
\* the update supplied unchanged
C2_Witness ==
    /\ phase = "filtered"
    /\ Attributes_MEDIA_TITLE \in DOMAIN delta
    /\ delta[Attributes_MEDIA_TITLE] = Some("a")
    /\ Attributes_VOLUME \in DOMAIN update
    /\ update[Attributes_VOLUME] = entity.attributes[Attributes_VOLUME]
    /\ Attributes_VOLUME \notin DOMAIN delta

\* C3: whenever the delta sets the state to OFF it holds "" for image URL,
\* album, artist, title, media-type and source, whatever the update supplied
\* for them and whether or not they changed.
C3_OffClearsMedia ==
    (phase = "filtered" /\ Attributes_STATE \in DOMAIN delta
        /\ delta[Attributes_STATE] = Some("OFF")) =>
        /\ Attributes_MEDIA_IMAGE_URL \in DOMAIN delta /\ delta[Attributes_MEDIA_IMAGE_URL] = Some("")
        /\ Attributes_MEDIA_ALBUM \in DOMAIN delta /\ delta[Attributes_MEDIA_ALBUM] = Some("")
        /\ Attributes_MEDIA_ARTIST \in DOMAIN delta /\ delta[Attributes_MEDIA_ARTIST] = Some("")
        /\ Attributes_MEDIA_TITLE \in DOMAIN delta /\ delta[Attributes_MEDIA_TITLE] = Some("")
        /\ Attributes_MEDIA_TYPE \in DOMAIN delta /\ delta[Attributes_MEDIA_TYPE] = Some("")
        /\ Attributes_SOURCE \in DOMAIN delta /\ delta[Attributes_SOURCE] = Some("")

\* C3 witness: the delta sets OFF while the update supplies a new title
C3_Witness ==
    /\ phase = "filtered"
    /\ Attributes_STATE \in DOMAIN delta
    /\ delta[Attributes_STATE] = Some("OFF")
    /\ Attributes_MEDIA_TITLE \in DOMAIN update
    /\ update[Attributes_MEDIA_TITLE] = Some("a")
    /\ entity.attributes[Attributes_MEDIA_TITLE] = Some("")

\* C7: for an entity constructed without sound-mode support no delta holds
\* the sound-mode or the sound-mode-list key, whatever the update supplies.
C7_NoSoundModeKeys ==
    (phase = "filtered" /\ ~entity.device.support_sound_mode) =>
        /\ Attributes_SOUND_MODE \notin DOMAIN delta
        /\ Attributes_SOUND_MODE_LIST \notin DOMAIN delta

\* C7 witness: such an entity was handed an update with both sound-mode keys
C7_Witness ==
    /\ phase = "filtered"
    /\ ~entity.device.support_sound_mode
    /\ Attributes_SOUND_MODE \in DOMAIN update
    /\ update[Attributes_SOUND_MODE] = Some("a")
    /\ Attributes_SOUND_MODE_LIST \in DOMAIN update
    /\ update[Attributes_SOUND_MODE_LIST] = Some(<<"CD">>)

\* C8: state_from_avr is total: ON, OFF, PAUSED and PLAYING map to an entity
\* state other than UNKNOWN, and every value outside the receiver states
\* (None included) maps to UNKNOWN; the mapped state is what the entity
\* records after the update.
C8_StateMappingTotal ==
    (phase = "updated" /\ Attributes_STATE \in DOMAIN update) =>
        LET s == update[Attributes_STATE]
            mapped == state_from_avr(s)
        IN  /\ mapped # None /\ Val(mapped) \in States
            /\ entity.attributes[Attributes_STATE] = mapped
            /\ s \in {Some("avr.ON"), Some("avr.OFF"), Some("avr.PAUSED"), Some("avr.PLAYING")}
                  => mapped # Some("UNKNOWN")
            /\ s \notin {Some(a) : a \in AvrStates} => mapped = Some("UNKNOWN")

\* C8 witness: a value outside the receiver states was mapped to UNKNOWN and
\* written, and so was a defined state
C8_Witness ==
    /\ phase = "updated"
    /\ Attributes_STATE \in DOMAIN update
    /\ update[Attributes_STATE] = Some("avr.undefined")
    /\ Attributes_STATE \in DOMAIN delta
    /\ delta[Attributes_STATE] = Some("UNKNOWN")
    /\ entity.attributes[Attributes_STATE] = Some("UNKNOWN")

-----------------------------------------------------------------------------
(* SpecCmd: commands dispatched to a media-player entity, interleaved with  *)
(* mute updates of its receiver                                             *)

CommandInputs == StructuredCommands \cup ALL_COMMANDS_TELNET_DENON \cup {"unknown_command"}

\* the params sent with a command: none, an empty mapping, or the parameter
\* the command reads (the other commands ignore their params)
ParamInputs(cmd_id) ==
    CASE cmd_id = "volume" -> {None, Some(EmptyDict), Some([volume |-> Some(30)])}
      [] cmd_id = "select_source" -> {None, Some(EmptyDict), Some([source |-> Some("CD")])}
      [] cmd_id = "select_sound_mode" -> {None, Some(EmptyDict), Some([mode |-> Some("a")])}
      [] OTHER -> {None}

\* the status codes an operation of the receiver returns
ReceiverResults == {"OK", "SERVICE_UNAVAILABLE"}

InitCmd ==
    /\ \E d \in AvrDevices : \E rcv \in {None, Some("receiver")} :
          entity = DenonMediaPlayer(d, rcv, InitialAttributes(d))
    /\ receiver \in [muted : BOOLEAN]
    /\ cmd = None
    /\ result = "none"
    /\ calls = <<>>
    /\ update = EmptyDict
    /\ delta = EmptyDict
    /\ phase = "start"
    /\ DriverIdle

\* the hub dispatches a command to the entity
Command ==
    \E cmd_id \in CommandInputs : \E params \in ParamInputs(cmd_id) : \E res \in ReceiverResults :
        LET out == command(entity, cmd_id, params, receiver, res)
        IN  /\ cmd' = <<cmd_id, params>>
            /\ result' = out.result
            /\ calls' = out.calls
            /\ receiver' = IF out.calls # <<>> /\ out.calls[1][1] = "mute" /\ out.result = "OK"
                           THEN [receiver EXCEPT !.muted = Val(out.calls[1][2][1])]
                           ELSE receiver
            /\ UNCHANGED <<entity, update, delta, phase, driverVars>>

\* the mute state changes at the receiver itself
ReceiverMuteChange ==
    /\ receiver' = [receiver EXCEPT !.muted = ~receiver.muted]
    /\ cmd' = None
    /\ result' = "none"
    /\ calls' = <<>>
    /\ UNCHANGED <<entity, update, delta, phase, driverVars>>

\* the receiver reports its mute state: on_avr_update diffs and records it
ReceiverMuteUpdate ==
    LET upd == (Attributes_MUTED :> Some(receiver.muted))
        attributes == filter_changed_attributes(entity, upd)
    IN  /\ attributes # EmptyDict
        /\ entity' = [entity EXCEPT !.attributes = Merge(entity.attributes, attributes)]
        /\ cmd' = None
        /\ result' = "none"
        /\ calls' = <<>>
        /\ UNCHANGED <<receiver, update, delta, phase, driverVars>>

NextCmd == Command \/ ReceiverMuteChange \/ ReceiverMuteUpdate

SpecCmd == InitCmd /\ [][NextCmd]_vars

-----------------------------------------------------------------------------
(* Claims about the command dispatcher (SpecCmd) *)

Dispatched == cmd # None
Bound == entity._receiver # None

\* C4 as stated: a command identifier that is neither structured nor in the
\* simple-command set configured for the device's flavor returns
\* NOT_IMPLEMENTED and invokes no operation on the receiver.
C4_FlavorSetDecides ==
    (Dispatched /\ Bound /\ cmd[1] \notin StructuredCommands
        /\ cmd[1] \notin entity.simple_commands) =>
        (result = "NOT_IMPLEMENTED" /\ calls = <<>>)

\* C4 as amended: a command identifier that is neither structured nor in
\* ALL_COMMANDS_TELNET_DENON (the simple commands of all flavors together)
\* returns NOT_IMPLEMENTED and invokes no operation on the receiver; a member
\* of ALL_COMMANDS_TELNET_DENON is forwarded to send_simple_command whatever
\* the flavor of the device.
C4_AllFlavorsSetDecides ==
    (Dispatched /\ Bound /\ cmd[1] \notin StructuredCommands) =>
        IF cmd[1] \in {"OUTPUT_1", "DIMMER_TOGGLE", "SPEAKER_PRESET_1", "AUDIO_RESTORER_OFF"}
        THEN calls = <<Call("send_simple_command", <<Some(cmd[1])>>)>>
        ELSE result = "NOT_IMPLEMENTED" /\ calls = <<>>

\* C4 witness: an unknown identifier was dispatched to a bound entity
C4_Witness ==
    /\ Dispatched /\ Bound
    /\ cmd[1] = "unknown_command"
    /\ result = "NOT_IMPLEMENTED"
    /\ calls = <<>>

C6_UnboundUnavailable ==
    [][(cmd' # None /\ entity._receiver = None) =>
          /\ result' = "SERVICE_UNAVAILABLE"
          /\ calls' = <<>>
          /\ entity' = entity
          /\ receiver' = receiver]_vars

\* C6 witness: a structured command was dispatched to an unbound entity
C6_Witness ==
    /\ Dispatched /\ ~Bound
    /\ cmd[1] = "mute_toggle"
    /\ result = "SERVICE_UNAVAILABLE"
    /\ calls = <<>>

-----------------------------------------------------------------------------
(* driver.py: identifiers, receivers, entities *)

\* bounds of the driver model
MaxReceivers == 1
MaxEntityIds == 1
MaxEvents == 1
MaxDevices == 1
MaxTasks == 1

\* config.devices.all(): the devices in the order of the configuration file
DeviceNames == <<"A", "B", "C", "D">>
DeviceOrder == SubSeq(DeviceNames, 1, MaxDevices)

\* the device identifiers that can get a configuration, and one that never has
AvrIds == {DeviceOrder[i] : i \in 1..Len(DeviceOrder)}
UnknownAvrId == "X"

\* config.AvrDevice of an identifier (config.py)
DeviceConfig(avr_id) ==
    [id |-> avr_id, support_sound_mode |-> avr_id = "A", is_denon |-> avr_id = "A",
     use_telnet |-> avr_id = "A"]

EntityTypes == {"media_player", "remote"}

\* config.create_entity_id
create_entity_id(avr_id, entity_type) == entity_type \o "." \o avr_id

\* config.avr_from_entity_id: the part of the entity id after the entity type
avr_from_entity_id(entity_id) ==
    LET known == {a \in AvrIds \cup {UnknownAvrId} :
                     \E t \in EntityTypes : create_entity_id(a, t) = entity_id}
    IN  IF known = {} THEN None ELSE Some(CHOOSE a \in known : TRUE)

\* _entities_from_avr
_entities_from_avr(avr_id) == <<"media_player." \o avr_id, "remote." \o avr_id>>

\* the handlers _configure_new_avr registers on a new receiver, by event
Listeners ==
    [connected |-> "on_avr_connected", disconnected |-> "on_avr_disconnected",
     error |-> "on_avr_connection_error", update |-> "on_avr_update",
     ip_address_changed |-> "handle_avr_address_change"]

\* avr.DenonDevice(device): a receiver object before its first connect.
\* listeners: per event the number of handlers registered; the other fields are the
\* receiver's own (avr.py)
NewReceiver(device) ==
    [id |-> device.id, listeners |-> EmptyDict, connected |-> FALSE,
     state |-> "avr.UNKNOWN", media_title |-> ""]

\* ucapi.remote.States
RemoteStates == {"ON", "OFF", "UNAVAILABLE", "UNKNOWN"}

\* denon_remote.DenonRemote.state_from_avr (denon_remote.py)
remote_state_from_avr(avr_state) ==
    CASE avr_state = Some("avr.ON") -> Some("ON")
      [] avr_state = Some("avr.PAUSED") -> Some("ON")
      [] avr_state = Some("avr.PLAYING") -> Some("ON")
      [] avr_state = Some("avr.OFF") -> Some("OFF")
      [] avr_state = Some("avr.UNAVAILABLE") -> Some("UNAVAILABLE")
      [] OTHER -> Some("UNKNOWN")

\* denon_remote.DenonRemote(device, receiver, media_player) (denon_remote.py);
\* state is the state attribute it starts with
DenonRemote(device, rcv, state) ==
    [entity_type |-> "remote",
     _receiver |-> rcv,
     attributes |-> (Attributes_STATE :> Some(state)),
     device |-> device]

\* denon_remote.DenonRemote.filter_changed_attributes (denon_remote.py): the
\* state only, mapped and compared with the recorded one
remote_filter_changed_attributes(self, upd) ==
    IF Attributes_STATE \in DOMAIN upd
    THEN LET state == remote_state_from_avr(upd[Attributes_STATE])
         IN  IF self.attributes[Attributes_STATE] # state
             THEN (Attributes_STATE :> state)
             ELSE EmptyDict
    ELSE EmptyDict

\* del d[k]
Remove(d, k) == IF (DOMAIN d) \ {k} = {} THEN EmptyDict ELSE [x \in (DOMAIN d) \ {k} |-> d[x]]

-----------------------------------------------------------------------------
(* driver.py: the state a handler works on, and the calls it makes *)

\* the mutable state of the driver at the start of a handler
Store ==
    [avrs |-> _configured_avrs, receivers |-> receivers, available |-> available_entities,
     configured |-> configured_entities, shared |-> shared, tasks |-> tasks,
     events |-> events, writes |-> <<>>]

\* the state a handler leaves
Commit(st) ==
    /\ Len(st.receivers) <= limits.receivers
    /\ limits.deliver => Len(st.events) <= limits.events
    /\ Cardinality(st.tasks) <= limits.tasks
    /\ _configured_avrs' = st.avrs
    /\ receivers' = st.receivers
    /\ available_entities' = st.available
    /\ configured_entities' = st.configured
    /\ shared' = st.shared
    /\ tasks' = st.tasks
    /\ events' = (IF limits.deliver THEN st.events ELSE <<>>)
    /\ writes' = st.writes

\* _LOOP.create_task(receiver.connect()) and the like
Task(kind, ref) == [kind |-> kind, ref |-> ref]
create_task(st, kind, ref) == [st EXCEPT !.tasks = @ \cup {Task(kind, ref)}]

\* receiver.events.emit(name, receiver.id, ...): the handler registered for
\* the event is scheduled; the scheduled handlers start in this order, each
\* in a later step.  A handler is passed the device id and the payload;
\* source keeps which receiver object emitted the event.
Event(name, avr_id, payload, source) ==
    [name |-> name, avr_id |-> avr_id, payload |-> payload, source |-> source]
emit(st, ref, name, payload) ==
    IF name \in DOMAIN st.receivers[ref].listeners
    THEN [st EXCEPT !.events = @ \o [i \in 1..st.receivers[ref].listeners[name] |->
                                         Event(name, st.receivers[ref].id, payload, ref)]]
    ELSE st

\* one update_attributes call as the log of a step keeps it: the entity, the
\* attributes passed, and whether the entity's recorded attributes changed
Write(entity_id, attributes, changed) ==
    [entity_id |-> entity_id, attributes |-> attributes, changed |-> changed]

\* api.configured_entities.update_attributes(entity_id, attributes): the
\* attributes of the configured entity are overwritten key by key (an entity
\* object that is also the available one is the same object)
update_attributes(st, entity_id, attributes) ==
    IF entity_id \in DOMAIN st.configured
    THEN LET e == [st.configured[entity_id] EXCEPT !.attributes = Merge(@, attributes)]
         IN  [st EXCEPT !.configured = [@ EXCEPT ![entity_id] = e],
                        !.available = IF entity_id \in st.shared
                                      THEN [@ EXCEPT ![entity_id] = e]
                                      ELSE @,
                        !.writes = Append(@, Write(entity_id, attributes,
                                                   e # st.configured[entity_id]))]
    ELSE [st EXCEPT !.writes = Append(@, Write(entity_id, attributes, FALSE))]

\* _register_available_entities: a new media-player and a new remote entity
\* replace the available ones of the device
_register_available_entities(st, device, ref, remote_state) ==
    LET mp_id == create_entity_id(device.id, "media_player")
        rm_id == create_entity_id(device.id, "remote")
        mp == DenonMediaPlayer(device, Some(ref), InitialAttributes(device))
        rm == DenonRemote(device, Some(ref), remote_state)
    IN  [st EXCEPT !.available = Put(Put(@, mp_id, mp), rm_id, rm),
                   !.shared = @ \ {mp_id, rm_id}]

\* receiver.events.on(event, handler): one more handler for the event
on(listeners, event) ==
    Put(listeners, event, IF event \in DOMAIN listeners THEN listeners[event] + 1 ELSE 1)

\* _configure_new_avr(device, connect)
AlreadyConfigured_Never(avrs, id) == FALSE

\* _configure_new_avr: if device.id in _configured_avrs
AlreadyConfigured(avrs, id) == id \in DOMAIN avrs

_configure_new_avr(st, device, connect, remote_state) ==
    LET known == AlreadyConfigured(st.avrs, device.id)
        ref == IF known THEN st.avrs[device.id] ELSE Len(st.receivers) + 1
        st1 == IF known
               THEN IF ~connect THEN create_task(st, "disconnect", ref) ELSE st
               ELSE [st EXCEPT
                        !.receivers = Append(@, [NewReceiver(device) EXCEPT
                            !.listeners = on(on(on(on(on(@, "connected"), "disconnected"),
                                                  "error"), "update"), "ip_address_changed")]),
                        !.avrs = Put(@, device.id, ref)]
        st2 == IF connect THEN create_task(st1, "connect", ref) ELSE st1
    IN  _register_available_entities(st2, device, ref, remote_state)

\* receiver.disconnect() (avr.py): the connection is closed and the
\* receiver announces it
disconnect(st, ref) ==
    emit([st EXCEPT !.receivers[ref].connected = FALSE], ref, "disconnected", None)

\* receiver.connect() (avr.py): either the connection is made, the receiver's
\* power state is read and the receiver announces it, or the attempt fails
\* and the receiver reports the error
connect(st, ref, ok, state) ==
    IF ok
    THEN emit([st EXCEPT !.receivers[ref].connected = TRUE,
                         !.receivers[ref].state = state], ref, "connected", None)
    ELSE emit(st, ref, "error", None)

\* receiver.events.remove_all_listeners()
remove_all_listeners(st, ref) == [st EXCEPT !.receivers[ref].listeners = EmptyDict]

\* api.configured_entities.get(entity_id)
configured_get(st, entity_id) ==
    IF entity_id \in DOMAIN st.configured THEN Some(st.configured[entity_id]) ELSE None

\* what the last step was, when it was a handler of a subscription or of a
\* receiver event: the handler, the device of the event, and the errors the
\* handler raised or logged
Op(op, avr_id, errors) == [op |-> op, avr_id |-> avr_id, errors |-> errors]

\* a step of which no outcome is recorded
Other == Op("other", "", <<>>)

\* the variables of the single-entity scenarios and the exploration limits,
\* which the driver leaves alone
ScenarioVars == UNCHANGED <<entity, update, delta, phase, receiver, cmd, result, calls, limits>>

\* what the handlers other than on_r2_enter_standby and the poller leave alone
NoSideVars == ScenarioVars /\ UNCHANGED <<standby, poller>>

-----------------------------------------------------------------------------
(* driver.py: startup and the device configuration callbacks *)

\* on_r2_enter_standby is not running
StandbyIdle == [pc |-> "idle", last |-> "none"]

\* receiver_status_poller sleeps between two cycles; no refresh is in flight
PollerIdle == [pc |-> "sleep", inflight |-> {}, waiting |-> {}, last |-> "none"]

EmptyStore ==
    [avrs |-> <<>>, receivers |-> <<>>, available |-> <<>>, configured |-> <<>>,
     shared |-> {}, tasks |-> {}, events |-> <<>>, writes |-> <<>>]

\* main(): for device in config.devices.all(): _configure_new_avr(device, connect=False)
RECURSIVE ConfigureAll(_, _, _, _)
ConfigureAll(st, devs, i, remote_state) ==
    IF i > Len(DeviceNames)
    THEN st
    ELSE IF DeviceNames[i] \in devs
         THEN ConfigureAll(_configure_new_avr(st, DeviceConfig(DeviceNames[i]), FALSE, remote_state),
                           devs, i + 1, remote_state)
         ELSE ConfigureAll(st, devs, i + 1, remote_state)

\* the state a DenonRemote can start with
RemoteInitialStates == {"UNAVAILABLE", "UNKNOWN"}

\* the driver after main() has run, for any stored device configuration
Init ==
    /\ entity = None /\ update = EmptyDict /\ delta = EmptyDict /\ phase = "idle"
    /\ receiver = [muted |-> FALSE] /\ cmd = None /\ result = "none" /\ calls = <<>>
    /\ devices \in SUBSET AvrIds
    /\ \E remote_state \in RemoteInitialStates :
          LET st == ConfigureAll(EmptyStore, devices, 1, remote_state)
          IN  /\ _configured_avrs = st.avrs
              /\ receivers = st.receivers
              /\ available_entities = st.available
              /\ configured_entities = st.configured
              /\ shared = st.shared
              /\ tasks = st.tasks
              /\ events = st.events
              /\ writes = st.writes
    /\ _R2_IN_STANDBY = FALSE
    /\ suspended = {}
    /\ lastOp = Other
    /\ standby = StandbyIdle
    /\ poller = PollerIdle
    /\ limits = [receivers |-> MaxReceivers, events |-> MaxEvents, tasks |-> MaxTasks,
                 deliver |-> TRUE]

\* on_device_added(device), called by config.devices when a device is stored
on_device_added(avr_id, remote_state) ==
    LET st == _configure_new_avr(Store, DeviceConfig(avr_id), FALSE, remote_state)
    IN  /\ devices' = devices \cup {avr_id}
        /\ Commit(st)
        /\ lastOp' = Other
        /\ UNCHANGED <<_R2_IN_STANDBY, suspended>>
        /\ NoSideVars

\* on_device_removed(device): one device
RemoveEntities(st, avr_id) ==
    LET ids == _entities_from_avr(avr_id)
    IN  [st EXCEPT !.configured = Remove(Remove(@, ids[1]), ids[2]),
                   !.available = Remove(Remove(@, ids[1]), ids[2]),
                   !.shared = @ \ {ids[1], ids[2]}]

on_device_removed(avr_id) ==
    LET st == IF avr_id \in DOMAIN _configured_avrs
              THEN RemoveEntities(
                      create_task([Store EXCEPT !.avrs = Remove(@, avr_id)],
                                  "_async_remove", _configured_avrs[avr_id]),
                      avr_id)
              ELSE Store
    IN  /\ avr_id \in devices
        /\ devices' = devices \ {avr_id}
        /\ Commit(st)
        /\ lastOp' = Other
        /\ UNCHANGED <<_R2_IN_STANDBY, suspended>>
        /\ NoSideVars

\* on_device_removed(None): the configuration was cleared
on_device_removed_None ==
    LET st == [Store EXCEPT
                  !.tasks = @ \cup {Task("_async_remove", _configured_avrs[a]) :
                                       a \in DOMAIN _configured_avrs},
                  !.avrs = <<>>,
                  !.configured = <<>>,
                  !.available = <<>>,
                  !.shared = {}]
    IN  /\ devices # {}
        /\ devices' = {}
        /\ Commit(st)
        /\ lastOp' = Other
        /\ UNCHANGED <<_R2_IN_STANDBY, suspended>>
        /\ NoSideVars

\* _async_remove(receiver), up to the end of the awaited disconnect
_async_remove_disconnect(task) ==
    /\ task \in tasks /\ task.kind = "_async_remove"
    /\ Commit([disconnect(Store, task.ref) EXCEPT
                  !.tasks = (@ \ {task}) \cup {Task("_async_remove.resumed", task.ref)}])
    /\ lastOp' = Other
    /\ UNCHANGED <<devices, _R2_IN_STANDBY, suspended>>
    /\ NoSideVars

\* _async_remove(receiver), after the await
_async_remove_listeners(task) ==
    /\ task \in tasks /\ task.kind = "_async_remove.resumed"
    /\ Commit([remove_all_listeners(Store, task.ref) EXCEPT !.tasks = @ \ {task}])
    /\ lastOp' = Other
    /\ UNCHANGED <<devices, _R2_IN_STANDBY, suspended>>
    /\ NoSideVars

-----------------------------------------------------------------------------
(* driver.py: the hub's events *)

\* the entity ids the hub can name: those of the devices, configured or not
EntityIds == {create_entity_id(a, t) : a \in AvrIds \cup {UnknownAvrId}, t \in EntityTypes}

RECURSIVE SeqsOver(_, _)
SeqsOver(S, n) ==
    IF n = 0 THEN {<<>>} ELSE {Append(q, x) : q \in SeqsOver(S, n - 1), x \in S}

\* the entity id lists of a subscribe or unsubscribe message
EntityIdLists == UNION {SeqsOver(EntityIds, n) : n \in 1..MaxEntityIds}

\* ucapi, before SUBSCRIBE_ENTITIES is emitted: every named entity that is
\* available is added to the configured ones (an id already there is kept)
RECURSIVE _subscribe_events(_, _, _)
_subscribe_events(st, entity_ids, i) ==
    IF i > Len(entity_ids)
    THEN st
    ELSE LET entity_id == entity_ids[i]
         IN  IF entity_id \in DOMAIN st.available /\ entity_id \notin DOMAIN st.configured
             THEN _subscribe_events([st EXCEPT
                                        !.configured = Put(@, entity_id, st.available[entity_id]),
                                        !.shared = @ \cup {entity_id}],
                                    entity_ids, i + 1)
             ELSE _subscribe_events(st, entity_ids, i + 1)

\* ucapi, before UNSUBSCRIBE_ENTITIES is emitted: the named entities are
\* removed from the configured ones
RECURSIVE _unsubscribe_events(_, _, _)
_unsubscribe_events(st, entity_ids, i) ==
    IF i > Len(entity_ids)
    THEN st
    ELSE LET entity_id == entity_ids[i]
         IN  IF entity_id \in DOMAIN st.configured
             THEN _unsubscribe_events([st EXCEPT !.configured = Remove(@, entity_id),
                                                 !.shared = @ \ {entity_id}],
                                      entity_ids, i + 1)
             ELSE _unsubscribe_events(st, entity_ids, i + 1)

\* on_subscribe_entities: device = config.devices.get(avr_id); if device
DeviceStored_Always(devs, avr_id) == TRUE

DeviceStored(devs, avr_id) == avr_id \in devs

\* on_subscribe_entities: the body of the loop.  st.errors collects what the
\* handler logs as an error
SubscribeEntity(st, devs, entity_id, remote_state) ==
    LET avr_id == avr_from_entity_id(entity_id)
    IN  IF avr_id # None /\ Val(avr_id) \in DOMAIN st.avrs
        THEN LET rcv == st.receivers[st.avrs[Val(avr_id)]]
                 configured_entity == configured_get(st, entity_id)
             IN  IF configured_entity = None
                 THEN st
                 ELSE IF Val(configured_entity).entity_type = "media_player"
                 THEN update_attributes(st, entity_id,
                                        (Attributes_STATE :> state_from_avr(Some(rcv.state))))
                 ELSE update_attributes(st, entity_id,
                                        (Attributes_STATE :> remote_state_from_avr(Some(rcv.state))))
        ELSE IF avr_id # None /\ DeviceStored(devs, Val(avr_id))
             THEN _configure_new_avr(st, DeviceConfig(Val(avr_id)), TRUE, remote_state)
             ELSE [st EXCEPT !.errors = Append(@, "no AVR configuration found")]

RECURSIVE SubscribeLoop(_, _, _, _, _)
SubscribeLoop(st, devs, entity_ids, i, remote_state) ==
    IF i > Len(entity_ids)
    THEN st
    ELSE SubscribeLoop(SubscribeEntity(st, devs, entity_ids[i], remote_state),
                       devs, entity_ids, i + 1, remote_state)

\* the hub subscribes to entities: ucapi's bookkeeping, then on_subscribe_entities
on_subscribe_entities(entity_ids, remote_state) ==
    LET st0 == _subscribe_events(Store @@ [errors |-> <<>>], entity_ids, 1)
        st == SubscribeLoop(st0, devices, entity_ids, 1, remote_state)
    IN  /\ _R2_IN_STANDBY' = FALSE
        /\ Commit(st)
        /\ lastOp' = Op("on_subscribe_entities", "", st.errors)
        /\ UNCHANGED <<devices, suspended>>
        /\ NoSideVars

\* on_unsubscribe_entities: the loop; a KeyError raised by a lookup ends the handler
RECURSIVE UnsubscribeLoop(_, _, _)
UnsubscribeLoop(st, entity_ids, i) ==
    IF i > Len(entity_ids)
    THEN st
    ELSE LET entity_id == entity_ids[i]
             avr_id == avr_from_entity_id(entity_id)
         IN  IF avr_id = None
             THEN UnsubscribeLoop(st, entity_ids, i + 1)
             ELSE IF Val(avr_id) \in DOMAIN st.avrs
             THEN IF entity_id \in DOMAIN st.avrs
                  THEN UnsubscribeLoop(
                          remove_all_listeners(disconnect(st, st.avrs[entity_id]),
                                               st.avrs[entity_id]),
                          entity_ids, i + 1)
                  ELSE [st EXCEPT !.errors = Append(@, "KeyError")]
             ELSE UnsubscribeLoop(st, entity_ids, i + 1)

\* the hub unsubscribes from entities: ucapi's bookkeeping, then
\* on_unsubscribe_entities
on_unsubscribe_entities(entity_ids) ==
    LET st0 == _unsubscribe_events(Store @@ [errors |-> <<>>], entity_ids, 1)
        st == UnsubscribeLoop(st0, entity_ids, 1)
    IN  /\ Commit(st)
        /\ lastOp' = Op("on_unsubscribe_entities", "", st.errors)
        /\ UNCHANGED <<devices, _R2_IN_STANDBY, suspended>>
        /\ NoSideVars

\* for configured in _configured_avrs.values():
\*     _LOOP.create_task(configured.connect())
ConnectTasks_None(avrs) == {}

ConnectTasks(avrs) == {Task("connect", avrs[a]) : a \in DOMAIN avrs}

\* for configured in _configured_avrs.values():
\*     _LOOP.create_task(configured.disconnect())
DisconnectTasks_Connect(avrs) == {Task("connect", avrs[a]) : a \in DOMAIN avrs}

DisconnectTasks(avrs) == {Task("disconnect", avrs[a]) : a \in DOMAIN avrs}

\* on_r2_connect_cmd: a connect task for every receiver of the active set
on_r2_connect_cmd ==
    /\ Commit([Store EXCEPT !.tasks = @ \cup ConnectTasks(_configured_avrs)])
    /\ lastOp' = Other
    /\ UNCHANGED <<devices, _R2_IN_STANDBY, suspended>>
    /\ NoSideVars

\* on_r2_disconnect_cmd: a disconnect task for every receiver of the active set
on_r2_disconnect_cmd ==
    /\ Commit([Store EXCEPT !.tasks = @ \cup DisconnectTasks(_configured_avrs)])
    /\ lastOp' = Other
    /\ UNCHANGED <<devices, _R2_IN_STANDBY, suspended>>
    /\ NoSideVars

-----------------------------------------------------------------------------
(* the receivers: background tasks finishing, and property changes (avr.py) *)

\* the power states a connected receiver reports
ReceiverStates == {"avr.OFF", "avr.PLAYING"}

\* a background receiver.connect() finishes
RunConnect(task, ok, state) ==
    /\ task \in tasks /\ task.kind = "connect"
    /\ Commit([connect(Store, task.ref, ok, state) EXCEPT !.tasks = @ \ {task}])
    /\ lastOp' = Other
    /\ UNCHANGED <<devices, _R2_IN_STANDBY, suspended>>
    /\ NoSideVars

\* a background receiver.disconnect() finishes
RunDisconnect(task) ==
    /\ task \in tasks /\ task.kind = "disconnect"
    /\ Commit([disconnect(Store, task.ref) EXCEPT !.tasks = @ \ {task}])
    /\ lastOp' = Other
    /\ UNCHANGED <<devices, _R2_IN_STANDBY, suspended>>
    /\ NoSideVars

\* a connected receiver's power state changes: it emits the changed property
ReceiverStateChange(ref, state) ==
    /\ ref \in 1..Len(receivers)
    /\ receivers[ref].connected
    /\ receivers[ref].state # state
    /\ Commit(emit([Store EXCEPT !.receivers[ref].state = state], ref, "update",
                   Some((Attributes_STATE :> Some(state)))))
    /\ lastOp' = Other
    /\ UNCHANGED <<devices, _R2_IN_STANDBY, suspended>>
    /\ NoSideVars

\* a connected receiver asks for a full resynchronisation: an update event
\* without payload
ReceiverResync(ref) ==
    /\ ref \in 1..Len(receivers)
    /\ receivers[ref].connected
    /\ Commit(emit(Store, ref, "update", None))
    /\ lastOp' = Other
    /\ UNCHANGED <<devices, _R2_IN_STANDBY, suspended>>
    /\ NoSideVars

-----------------------------------------------------------------------------
(* driver.py: the handlers of the receiver events *)

\* the next scheduled handler is the one of this event
Scheduled(name) == events # <<>> /\ Head(events).name = name

\* the state without the event whose handler starts
Started == [Store EXCEPT !.events = Tail(@)]

\* on_avr_connected: the guard of a write, state != States.UNKNOWN
StateNotUnknown_Always(state) == TRUE

StateNotUnknown(state) == state # Some("UNKNOWN")

\* on_avr_connected: the body of the loop
ConnectedEntity(st, entity_id) ==
    LET configured_entity == configured_get(st, entity_id)
    IN  IF configured_entity = None
        THEN st
        ELSE IF StateNotUnknown(Val(configured_entity).attributes[Attributes_STATE])
             THEN update_attributes(st, entity_id, (Attributes_STATE :> Some("UNKNOWN")))
             ELSE st

\* on_avr_disconnected and on_avr_connection_error: the body of the loop
UnavailableEntity_IfChanged(st, entity_id) ==
    LET configured_entity == configured_get(st, entity_id)
    IN  IF configured_entity = None
           \/ Val(configured_entity).attributes[Attributes_STATE] = Some("UNAVAILABLE")
        THEN st
        ELSE update_attributes(st, entity_id, (Attributes_STATE :> Some("UNAVAILABLE")))

UnavailableEntity(st, entity_id) ==
    LET configured_entity == configured_get(st, entity_id)
    IN  IF configured_entity = None
        THEN st
        ELSE update_attributes(st, entity_id, (Attributes_STATE :> Some("UNAVAILABLE")))

\* on_avr_connected: for entity_id in _entities_from_avr(avr_id)
RECURSIVE ConnectedLoop(_, _, _)
ConnectedLoop(st, entity_ids, i) ==
    IF i > Len(entity_ids)
    THEN st
    ELSE ConnectedLoop(ConnectedEntity(st, entity_ids[i]), entity_ids, i + 1)

\* on_avr_disconnected and on_avr_connection_error: for entity_id in
\* _entities_from_avr(avr_id)
RECURSIVE UnavailableLoop(_, _, _)
UnavailableLoop(st, entity_ids, i) ==
    IF i > Len(entity_ids)
    THEN st
    ELSE UnavailableLoop(UnavailableEntity(st, entity_ids[i]), entity_ids, i + 1)

\* on_avr_connected(avr_id), up to the await of api.set_device_state
on_avr_connected_begin ==
    /\ Scheduled("connected")
    /\ Commit(Started)
    /\ suspended' = IF Head(events).avr_id \in DOMAIN _configured_avrs
                    THEN suspended \cup {Head(events).avr_id}
                    ELSE suspended
    /\ lastOp' = Other
    /\ UNCHANGED <<devices, _R2_IN_STANDBY>>
    /\ NoSideVars

\* on_avr_connected(avr_id), after the await
on_avr_connected(avr_id) ==
    /\ avr_id \in suspended
    /\ suspended' = suspended \ {avr_id}
    /\ Commit(ConnectedLoop(Store, _entities_from_avr(avr_id), 1))
    /\ lastOp' = Op("on_avr_connected", avr_id, <<>>)
    /\ UNCHANGED <<devices, _R2_IN_STANDBY>>
    /\ NoSideVars

\* on_avr_disconnected(avr_id)
on_avr_disconnected ==
    /\ Scheduled("disconnected")
    /\ Commit(UnavailableLoop(Started, _entities_from_avr(Head(events).avr_id), 1))
    /\ lastOp' = Op("on_avr_disconnected", Head(events).avr_id, <<>>)
    /\ UNCHANGED <<devices, _R2_IN_STANDBY, suspended>>
    /\ NoSideVars

\* on_avr_connection_error(avr_id, message)
on_avr_connection_error ==
    /\ Scheduled("error")
    /\ Commit(UnavailableLoop(Started, _entities_from_avr(Head(events).avr_id), 1))
    /\ lastOp' = Op("on_avr_connection_error", Head(events).avr_id, <<>>)
    /\ UNCHANGED <<devices, _R2_IN_STANDBY, suspended>>
    /\ NoSideVars

\* on_avr_update: the update built from the receiver when the payload is None
Snapshot(rcv) ==
    Merge(ReceiverDefaults,
          (Attributes_STATE :> Some(rcv.state)) @@ (Attributes_MEDIA_TITLE :> Some(rcv.media_title)))

\* on_avr_update: the loop.  attributes is the local of that name, which
\* keeps its value from one entity to the next; an entity that is not
\* configured ends the handler
RECURSIVE UpdateLoop(_, _, _, _, _)
UpdateLoop(st, upd, entity_ids, i, attributes) ==
    IF i > Len(entity_ids)
    THEN st
    ELSE LET entity_id == entity_ids[i]
             configured_entity == configured_get(st, entity_id)
         IN  IF configured_entity = None
             THEN st
             ELSE LET self == Val(configured_entity)
                      attrs == IF self.entity_type = "media_player"
                               THEN Some(filter_changed_attributes(self, upd))
                               ELSE IF self.entity_type = "remote"
                               THEN Some(remote_filter_changed_attributes(self, upd))
                               ELSE attributes
                  IN  UpdateLoop(IF attrs # None /\ Val(attrs) # EmptyDict
                                 THEN update_attributes(st, entity_id, Val(attrs))
                                 ELSE st,
                                 upd, entity_ids, i + 1, attrs)

\* on_avr_update(avr_id, update)
on_avr_update ==
    /\ Scheduled("update")
    /\ LET avr_id == Head(events).avr_id
           payload == Head(events).payload
       IN  /\ IF payload = None /\ avr_id \notin DOMAIN _configured_avrs
              THEN Commit(Started)
              ELSE LET upd == IF payload = None
                              THEN Snapshot(receivers[_configured_avrs[avr_id]])
                              ELSE Val(payload)
                   IN  Commit(UpdateLoop(Started, upd, _entities_from_avr(avr_id), 1, None))
           /\ lastOp' = Op("on_avr_update", avr_id, <<>>)
    /\ UNCHANGED <<devices, _R2_IN_STANDBY, suspended>>
    /\ NoSideVars

-----------------------------------------------------------------------------
(* the driver *)

Next ==
    \/ \E avr_id \in AvrIds, remote_state \in RemoteInitialStates :
          on_device_added(avr_id, remote_state)
    \/ \E avr_id \in AvrIds : on_device_removed(avr_id)
    \/ on_device_removed_None
    \/ \E task \in tasks : _async_remove_disconnect(task)
    \/ \E task \in tasks : _async_remove_listeners(task)
    \/ \E entity_ids \in EntityIdLists, remote_state \in RemoteInitialStates :
          on_subscribe_entities(entity_ids, remote_state)
    \/ \E entity_ids \in EntityIdLists : on_unsubscribe_entities(entity_ids)
    \/ on_r2_connect_cmd
    \/ on_r2_disconnect_cmd
    \/ \E task \in tasks, ok \in BOOLEAN, state \in ReceiverStates : RunConnect(task, ok, state)
    \/ \E task \in tasks : RunDisconnect(task)
    \/ \E ref \in 1..Len(receivers), state \in ReceiverStates : ReceiverStateChange(ref, state)
    \/ \E ref \in 1..Len(receivers) : ReceiverResync(ref)
    \/ on_avr_connected_begin
    \/ \E avr_id \in AvrIds : on_avr_connected(avr_id)
    \/ on_avr_disconnected
    \/ on_avr_connection_error
    \/ on_avr_update

Spec == Init /\ [][Next]_vars

-----------------------------------------------------------------------------
(* driver.py: properties of the subscription and receiver-event handlers *)

\* the entity ids of a device, as a set
EntitiesOf(avr_id) ==
    {_entities_from_avr(avr_id)[i] : i \in 1..Len(_entities_from_avr(avr_id))}

\* the configured entities of the device the last handler ran for
Associated == EntitiesOf(lastOp.avr_id) \cap DOMAIN configured_entities

RecordedState(entity_id) == configured_entities[entity_id].attributes[Attributes_STATE]

\* the update_attributes calls of the last step for one entity
WritesTo(entity_id) == {i \in 1..Len(writes) : writes[i].entity_id = entity_id}

\* C1: unsubscribing an entity whose receiver is in the active set
\* disconnects that receiver and removes all of the driver's listeners from
\* it, and on_unsubscribe_entities completes without error, the first time
\* and every later time
C1_UnsubscribeDisconnects ==
    [][\A entity_ids \in EntityIdLists :
          on_unsubscribe_entities(entity_ids) =>
             /\ lastOp'.errors = <<>>
             /\ \A i \in 1..Len(entity_ids) :
                   LET avr_id == avr_from_entity_id(entity_ids[i])
                   IN  (avr_id # None /\ Val(avr_id) \in DOMAIN _configured_avrs) =>
                          /\ ~receivers'[_configured_avrs[Val(avr_id)]].connected
                          /\ receivers'[_configured_avrs[Val(avr_id)]].listeners = EmptyDict]_vars

\* C9: after on_avr_connected every configured entity of the device records
\* state UNKNOWN, and the handler wrote exactly the entities whose recorded
\* state was not UNKNOWN yet: each write is {state: UNKNOWN}, goes to an
\* entity of the device, changes that entity, and no entity is written twice
C9_ConnectedWritesUnknownOnce ==
    lastOp.op = "on_avr_connected" =>
       /\ \A entity_id \in Associated : RecordedState(entity_id) = Some("UNKNOWN")
       /\ \A i \in 1..Len(writes) :
             /\ writes[i].entity_id \in Associated
             /\ writes[i].attributes = (Attributes_STATE :> Some("UNKNOWN"))
             /\ writes[i].changed
             /\ WritesTo(writes[i].entity_id) = {i}

\* on_avr_connected ran for a device with both entities configured: one had
\* another state and was written, the other was UNKNOWN already and was not
C9_Witness ==
    /\ lastOp.op = "on_avr_connected"
    /\ Associated = EntitiesOf(lastOp.avr_id)
    /\ Len(writes) = 1

\* C10 as stated: after on_avr_disconnected or on_avr_connection_error every
\* configured entity of the device records state UNAVAILABLE, and the
\* handler wrote no entity that was UNAVAILABLE already
C10_UnavailableNoRepeatedWrite ==
    lastOp.op \in {"on_avr_disconnected", "on_avr_connection_error"} =>
       /\ \A entity_id \in Associated : RecordedState(entity_id) = Some("UNAVAILABLE")
       /\ \A i \in 1..Len(writes) : writes[i].changed

\* C10: after on_avr_disconnected or on_avr_connection_error every
\* configured entity of the device records state UNAVAILABLE, and the
\* handler wrote {state: UNAVAILABLE} exactly once to each of them, whatever
\* state it recorded before
C10_UnavailableAlwaysWritten ==
    lastOp.op \in {"on_avr_disconnected", "on_avr_connection_error"} =>
       /\ \A entity_id \in Associated :
             /\ RecordedState(entity_id) = Some("UNAVAILABLE")
             /\ Cardinality(WritesTo(entity_id)) = 1
       /\ \A i \in 1..Len(writes) :
             /\ writes[i].entity_id \in Associated
             /\ writes[i].attributes = (Attributes_STATE :> Some("UNAVAILABLE"))

\* an event repeated: on_avr_disconnected or on_avr_connection_error wrote
\* to entities that all recorded UNAVAILABLE already
C10_Witness ==
    /\ lastOp.op \in {"on_avr_disconnected", "on_avr_connection_error"}
    /\ Associated = EntitiesOf(lastOp.avr_id)
    /\ Len(writes) = 2
    /\ \A i \in 1..Len(writes) : ~writes[i].changed

-----------------------------------------------------------------------------
(* driver.py: on_subscribe_entities, also for a stored device without receiver *)

\* the driver with receivers constructed for some of the stored devices only:
\* on_subscribe_entities provides for a stored device that is not in
\* _configured_avrs.  The receivers connect and change their state, so that
\* there are different states to push; the handlers of the events they emit
\* are not followed here.
InitSubscribe ==
    /\ entity = None /\ update = EmptyDict /\ delta = EmptyDict /\ phase = "idle"
    /\ receiver = [muted |-> FALSE] /\ cmd = None /\ result = "none" /\ calls = <<>>
    /\ devices \in SUBSET AvrIds
    /\ \E constructed \in SUBSET devices, remote_state \in RemoteInitialStates :
          LET st == ConfigureAll(EmptyStore, constructed, 1, remote_state)
          IN  /\ _configured_avrs = st.avrs
              /\ receivers = st.receivers
              /\ available_entities = st.available
              /\ configured_entities = st.configured
              /\ shared = st.shared
              /\ tasks = st.tasks
              /\ events = st.events
              /\ writes = st.writes
    /\ _R2_IN_STANDBY = FALSE
    /\ suspended = {}
    /\ lastOp = Other
    /\ standby = StandbyIdle
    /\ poller = PollerIdle
    /\ limits = [receivers |-> MaxReceivers, events |-> MaxEvents, tasks |-> MaxTasks,
                 deliver |-> FALSE]

\* a subscribe message names up to two entities, so that one message can
\* meet different outcomes
MaxSubscribeIds == 2

SubscribeIdLists == UNION {SeqsOver(EntityIds, n) : n \in 1..MaxSubscribeIds}

NextSubscribe ==
    \/ \E entity_ids \in SubscribeIdLists, remote_state \in RemoteInitialStates :
          on_subscribe_entities(entity_ids, remote_state)
    \/ on_r2_connect_cmd
    \/ \E task \in tasks, ok \in BOOLEAN, state \in ReceiverStates : RunConnect(task, ok, state)
    \/ \E ref \in 1..Len(receivers), state \in ReceiverStates : ReceiverStateChange(ref, state)

SpecSubscribe == InitSubscribe /\ [][NextSubscribe]_vars

\* the state on_subscribe_entities pushes to an entity of a receiver
PushedState(entity_id, rcv) ==
    IF \E a \in AvrIds \cup {UnknownAvrId} : entity_id = create_entity_id(a, "media_player")
    THEN state_from_avr(Some(rcv.state))
    ELSE remote_state_from_avr(Some(rcv.state))

\* C11: on_subscribe_entities gives each entity id one of three outcomes.
\* An id whose receiver is in the active set gets the receiver's mapped
\* state written to its entity, and that receiver stays as it is; an id
\* whose device is stored but has no receiver gets a new receiver in the
\* active set and a connect task; any other id gets an error logged.
\* Nothing else is written, constructed, connected or logged.
C11_SubscribeOutcomes ==
    [][\A entity_ids \in SubscribeIdLists, remote_state \in RemoteInitialStates :
          on_subscribe_entities(entity_ids, remote_state) =>
             LET avr(i) == Val(avr_from_entity_id(entity_ids[i]))
                 active == {i \in 1..Len(entity_ids) : avr(i) \in DOMAIN _configured_avrs}
                 stored == {i \in 1..Len(entity_ids) :
                               avr(i) \notin DOMAIN _configured_avrs /\ avr(i) \in devices}
                 unknown == (1..Len(entity_ids)) \ (active \cup stored)
             IN  /\ Len(writes') = Cardinality(active)
                 /\ \A i \in active :
                       \E j \in 1..Len(writes') :
                          /\ writes'[j].entity_id = entity_ids[i]
                          /\ writes'[j].attributes =
                                (Attributes_STATE :>
                                    PushedState(entity_ids[i],
                                                receivers[_configured_avrs[avr(i)]]))
                 /\ DOMAIN _configured_avrs' = DOMAIN _configured_avrs \cup {avr(i) : i \in stored}
                 /\ \A a \in DOMAIN _configured_avrs :
                       /\ _configured_avrs'[a] = _configured_avrs[a]
                       /\ receivers'[_configured_avrs[a]] = receivers[_configured_avrs[a]]
                 /\ Len(receivers') = Len(receivers) + Cardinality({avr(i) : i \in stored})
                 /\ tasks' = tasks \cup {Task("connect", _configured_avrs'[avr(i)]) : i \in stored}
                 /\ Len(lastOp'.errors) = Cardinality(unknown)]_vars

\* on_subscribe_entities met an unknown id and constructed a receiver for a
\* stored device in one message: one error is logged, a connect task is
\* pending for a receiver that never connected, and nothing was written
C11_Witness ==
    /\ lastOp.op = "on_subscribe_entities"
    /\ Len(lastOp.errors) = 1
    /\ writes = <<>>
    /\ \E a \in DOMAIN _configured_avrs :
          /\ Task("connect", _configured_avrs[a]) \in tasks
          /\ receivers[_configured_avrs[a]].state = "avr.UNKNOWN"

-----------------------------------------------------------------------------
(* driver.py: standby and the poller *)

\* the receivers of _configured_avrs
ActiveRefs(avrs) == {avrs[a] : a \in DOMAIN avrs}

\* _configured_avrs.values(): a dict is iterated in insertion order, the order
\* in which the receivers were constructed
NextValue(avrs, after) ==
    LET rest == {ref \in ActiveRefs(avrs) : ref > after}
    IN  IF rest = {} THEN None
        ELSE Some(CHOOSE ref \in rest : \A other \in rest : ref <= other)

\* on_r2_enter_standby: the value of the flag it sets before the loop
StandbyFlag_Clear == FALSE

StandbyFlag == TRUE

\* on_r2_enter_standby up to the first await: the flag is set, and the handler
\* is suspended in the disconnect of the first receiver, or returns
on_r2_enter_standby_begin ==
    /\ standby.pc = "idle"
    /\ _R2_IN_STANDBY' = StandbyFlag
    /\ LET first == NextValue(_configured_avrs, 0)
       IN  standby' = IF first = None
                      THEN [pc |-> "idle", last |-> "returned"]
                      ELSE [pc |-> "await", last |-> standby.last, ref |-> Val(first),
                            used |-> Cardinality(DOMAIN _configured_avrs)]
    /\ lastOp' = Other
    /\ UNCHANGED <<devices, _configured_avrs, receivers, available_entities,
                   configured_entities, shared, tasks, events, writes, suspended, poller>>
    /\ ScenarioVars

\* on_r2_enter_standby resumes: the awaited disconnect is done, and the dict
\* iterator is asked for the next receiver.  It raises RuntimeError when the
\* dict has another size than at the start of the loop.
on_r2_enter_standby ==
    /\ standby.pc = "await"
    /\ Commit(disconnect(Store, standby.ref))
    /\ LET following == NextValue(_configured_avrs, standby.ref)
       IN  standby' =
              IF Cardinality(DOMAIN _configured_avrs) # standby.used
              THEN [pc |-> "idle", last |-> "RuntimeError"]
              ELSE IF following = None
                   THEN [pc |-> "idle", last |-> "returned"]
                   ELSE [standby EXCEPT !.ref = Val(following)]
    /\ lastOp' = Other
    /\ UNCHANGED <<devices, _R2_IN_STANDBY, suspended, poller>>
    /\ ScenarioVars

\* on_r2_exit_standby: the flag is cleared, a connect task for every receiver
\* of the active set
on_r2_exit_standby ==
    /\ _R2_IN_STANDBY' = FALSE
    /\ Commit([Store EXCEPT !.tasks = @ \cup ConnectTasks(_configured_avrs)])
    /\ lastOp' = Op("on_r2_exit_standby", "", <<>>)
    /\ UNCHANGED <<devices, suspended, standby, poller>>
    /\ ScenarioVars

\* receiver_status_poller: if not _R2_IN_STANDBY
PollerRuns_Always(flag) == TRUE

PollerRuns(flag) == ~flag

\* the kinds of end a refresh (async_update_receiver_data) can take
RefreshOutcomes == {"ok", "KeyError", "ValueError", "OtherError"}

\* receiver_status_poller: except (KeyError, ValueError)
Caught(outcome) == outcome \in {"KeyError", "ValueError"}

\* receiver_status_poller wakes up: unless in standby, a refresh is started
\* for every active receiver with an unhealthy telnet connection, and the
\* poller waits for them in asyncio.gather
receiver_status_poller(unhealthy) ==
    /\ poller.pc = "sleep"
    /\ unhealthy \subseteq {ref \in ActiveRefs(_configured_avrs) : receivers[ref].connected}
    /\ poller' = IF ~PollerRuns(_R2_IN_STANDBY)
                 THEN [poller EXCEPT !.last = "skipped"]
                 ELSE IF unhealthy = {}
                      THEN [poller EXCEPT !.last = "ran"]
                      ELSE [pc |-> "gather", inflight |-> poller.inflight \cup unhealthy,
                            waiting |-> unhealthy, last |-> poller.last]
    /\ lastOp' = Other
    /\ UNCHANGED <<devices, _configured_avrs, receivers, available_entities,
                   configured_entities, shared, tasks, events, writes, suspended,
                   _R2_IN_STANDBY, standby>>
    /\ ScenarioVars

\* a refresh ends.  asyncio.gather hands the first exception of the
\* refreshes it waits for to the poller at once and leaves the others
\* running; the poller catches KeyError and ValueError and goes to sleep, any
\* other exception ends it.  A refresh left over from an earlier cycle ends
\* unobserved.
async_update_receiver_data(ref, outcome) ==
    /\ ref \in poller.inflight
    /\ outcome \in RefreshOutcomes
    /\ LET rest == poller.inflight \ {ref}
           others == poller.waiting \ {ref}
       IN  poller' =
              IF ref \notin poller.waiting
              THEN [poller EXCEPT !.inflight = rest]
              ELSE IF outcome = "ok"
                   THEN IF others = {}
                        THEN [pc |-> "sleep", inflight |-> rest, waiting |-> {}, last |-> "ran"]
                        ELSE [poller EXCEPT !.inflight = rest, !.waiting = others]
                   ELSE IF Caught(outcome)
                        THEN [pc |-> "sleep", inflight |-> rest, waiting |-> {}, last |-> "caught"]
                        ELSE [pc |-> "dead", inflight |-> rest, waiting |-> {}, last |-> "died"]
    /\ lastOp' = Other
    /\ UNCHANGED <<devices, _configured_avrs, receivers, available_entities,
                   configured_entities, shared, tasks, events, writes, suspended,
                   _R2_IN_STANDBY, standby>>
    /\ ScenarioVars

\* the driver after main(), with room for a connect and a disconnect task.
\* The handlers of the receiver events (on_avr_connected, on_avr_disconnected,
\* on_avr_connection_error, on_avr_update) read and write entity attributes
\* only: none of them reads or writes _R2_IN_STANDBY, _configured_avrs, a
\* task or a connection, so the events the receivers emit are not followed
\* here.
MaxStandbyTasks == 2

InitStandby ==
    /\ entity = None /\ update = EmptyDict /\ delta = EmptyDict /\ phase = "idle"
    /\ receiver = [muted |-> FALSE] /\ cmd = None /\ result = "none" /\ calls = <<>>
    /\ devices \in SUBSET AvrIds
    /\ \E remote_state \in RemoteInitialStates :
          LET st == ConfigureAll(EmptyStore, devices, 1, remote_state)
          IN  /\ _configured_avrs = st.avrs
              /\ receivers = st.receivers
              /\ available_entities = st.available
              /\ configured_entities = st.configured
              /\ shared = st.shared
              /\ tasks = st.tasks
              /\ events = st.events
              /\ writes = st.writes
    /\ _R2_IN_STANDBY = FALSE
    /\ suspended = {}
    /\ lastOp = Other
    /\ standby = StandbyIdle
    /\ poller = PollerIdle
    /\ limits = [receivers |-> MaxReceivers, events |-> MaxEvents, tasks |-> MaxStandbyTasks,
                 deliver |-> FALSE]

NextStandby ==
    \/ on_r2_enter_standby_begin
    \/ on_r2_enter_standby
    \/ on_r2_exit_standby
    \/ \E entity_ids \in EntityIdLists, remote_state \in RemoteInitialStates :
          on_subscribe_entities(entity_ids, remote_state)
    \/ on_r2_connect_cmd
    \/ on_r2_disconnect_cmd
    \/ \E task \in tasks, ok \in BOOLEAN, state \in ReceiverStates : RunConnect(task, ok, state)
    \/ \E task \in tasks : RunDisconnect(task)
    \/ \E avr_id \in AvrIds, remote_state \in RemoteInitialStates :
          on_device_added(avr_id, remote_state)
    \/ \E avr_id \in AvrIds : on_device_removed(avr_id)
    \/ \E task \in tasks : _async_remove_disconnect(task)
    \/ \E task \in tasks : _async_remove_listeners(task)

SpecStandby == InitStandby /\ [][NextStandby]_vars

\* the poller next to the handlers that set and clear _R2_IN_STANDBY and the
\* connects that make a receiver active
InitPoller ==
    /\ entity = None /\ update = EmptyDict /\ delta = EmptyDict /\ phase = "idle"
    /\ receiver = [muted |-> FALSE] /\ cmd = None /\ result = "none" /\ calls = <<>>
    /\ devices \in SUBSET AvrIds
    /\ \E remote_state \in RemoteInitialStates :
          LET st == ConfigureAll(EmptyStore, devices, 1, remote_state)
          IN  /\ _configured_avrs = st.avrs
              /\ receivers = st.receivers
              /\ available_entities = st.available
              /\ configured_entities = st.configured
              /\ shared = st.shared
              /\ tasks = st.tasks
              /\ events = st.events
              /\ writes = st.writes
    /\ _R2_IN_STANDBY = FALSE
    /\ suspended = {}
    /\ lastOp = Other
    /\ standby = StandbyIdle
    /\ poller = PollerIdle
    /\ limits = [receivers |-> MaxReceivers, events |-> MaxEvents, tasks |-> MaxTasks,
                 deliver |-> FALSE]

NextPoller ==
    \/ \E unhealthy \in SUBSET (1..Len(receivers)) : receiver_status_poller(unhealthy)
    \/ \E ref \in 1..Len(receivers), outcome \in RefreshOutcomes :
          async_update_receiver_data(ref, outcome)
    \/ on_r2_enter_standby_begin
    \/ on_r2_enter_standby
    \/ on_r2_exit_standby
    \/ \E entity_ids \in EntityIdLists, remote_state \in RemoteInitialStates :
          on_subscribe_entities(entity_ids, remote_state)
    \/ on_r2_connect_cmd
    \/ \E task \in tasks, ok \in BOOLEAN, state \in ReceiverStates : RunConnect(task, ok, state)

SpecPoller == InitPoller /\ [][NextPoller]_vars

\* C12 as stated: in no state with the standby flag set is a refresh of
\* receiver data started or in flight.
C12_NoRefreshInStandby == _R2_IN_STANDBY => poller.inflight = {}

\* C12: the poller starts no refresh while the standby flag is set: a cycle
\* that begins with the flag set is skipped, whatever the receivers' health.
\* (A refresh started before the flag was set stays in flight.)
C12_NoRefreshStartedInStandby ==
    [][/\ (poller'.inflight \ poller.inflight # {}) => ~_R2_IN_STANDBY /\ ~_R2_IN_STANDBY'
       /\ (poller.pc = "sleep" /\ poller'.pc = "gather") => ~_R2_IN_STANDBY
       /\ \A unhealthy \in SUBSET (1..Len(receivers)) :
             receiver_status_poller(unhealthy) /\ _R2_IN_STANDBY =>
                poller' = [poller EXCEPT !.last = "skipped"]]_vars

\* the poller woke up in standby and skipped its cycle although a receiver
\* of the active set is connected
C12_Witness ==
    /\ _R2_IN_STANDBY
    /\ poller.last = "skipped"
    /\ poller.inflight = {}
    /\ \E ref \in ActiveRefs(_configured_avrs) : receivers[ref].connected

\* C15: a failing refresh never ends the poller, whatever it raised.
C15_PollerSurvivesRefreshFailure == poller.pc # "dead"

\* C13 as stated: every step that clears the standby flag leaves a connect
\* task for every receiver of the active set.
C13_ClearingReconnectsAll ==
    [][(_R2_IN_STANDBY /\ ~_R2_IN_STANDBY') =>
          \A ref \in ActiveRefs(_configured_avrs') : Task("connect", ref) \in tasks']_vars

\* C13: on_r2_exit_standby clears the flag and issues a connect for every
\* receiver of the active set; on_subscribe_entities clears the flag too but
\* issues no connect for a receiver that is already in the active set.
C13_ExitStandbyReconnectsAll ==
    [][/\ on_r2_exit_standby =>
             /\ ~_R2_IN_STANDBY'
             /\ _configured_avrs' = _configured_avrs
             /\ \A ref \in ActiveRefs(_configured_avrs) : Task("connect", ref) \in tasks'
       /\ \A entity_ids \in EntityIdLists, remote_state \in RemoteInitialStates :
             on_subscribe_entities(entity_ids, remote_state) =>
                /\ ~_R2_IN_STANDBY'
                /\ \A ref \in ActiveRefs(_configured_avrs) :
                      Task("connect", ref) \in tasks' => Task("connect", ref) \in tasks]_vars

\* on_r2_exit_standby ran after a completed on_r2_enter_standby: a connect is
\* pending for a receiver that standby disconnected
C13_Witness ==
    /\ lastOp.op = "on_r2_exit_standby"
    /\ standby.last = "returned"
    /\ ~_R2_IN_STANDBY
    /\ \E ref \in ActiveRefs(_configured_avrs) :
          ~receivers[ref].connected /\ Task("connect", ref) \in tasks

\* C14 as stated: when on_r2_enter_standby has returned and the flag is still
\* set, every receiver of the active set is disconnected and no connect of
\* it is pending.
C14_QuiescentAfterStandby ==
    (standby.pc = "idle" /\ standby.last = "returned" /\ _R2_IN_STANDBY) =>
       \A ref \in ActiveRefs(_configured_avrs) :
          ~receivers[ref].connected /\ Task("connect", ref) \notin tasks

\* C14: on_r2_enter_standby sets the flag before any disconnect, and each of
\* its later steps completes the disconnect of exactly the receiver it was
\* waiting for.  (Connect tasks are not cancelled: a receiver can be
\* connected again while the flag is set.)
C14_StandbyOrder ==
    [][/\ on_r2_enter_standby_begin =>
             /\ _R2_IN_STANDBY'
             /\ receivers' = receivers
             /\ standby'.pc = "await" =>
                   \A ref \in ActiveRefs(_configured_avrs) : standby'.ref <= ref
             /\ standby'.pc = "idle" => ActiveRefs(_configured_avrs) = {}
       /\ on_r2_enter_standby =>
             /\ ~receivers'[standby.ref].connected
             /\ \A ref \in 1..Len(receivers) :
                   ref # standby.ref => receivers'[ref] = receivers[ref]
             /\ tasks' = tasks
             /\ standby'.pc = "await" =>
                   /\ standby'.ref > standby.ref
                   /\ \A ref \in ActiveRefs(_configured_avrs) :
                         ref > standby.ref => standby'.ref <= ref
             /\ (standby'.pc = "idle" /\ standby'.last = "returned") =>
                   \A ref \in ActiveRefs(_configured_avrs) : ref <= standby.ref]_vars

\* on_r2_enter_standby has gone through two receivers and returned, the flag
\* is still set, and yet a receiver of the active set is connected
C14_Witness ==
    /\ standby.pc = "idle" /\ standby.last = "returned"
    /\ _R2_IN_STANDBY
    /\ Cardinality(ActiveRefs(_configured_avrs)) = 2
    /\ \E ref \in ActiveRefs(_configured_avrs) : receivers[ref].connected

\* C20: on_r2_connect_cmd, on_r2_disconnect_cmd and on_r2_exit_standby only
\* add a task per receiver of the active set and touch no connection; when a
\* connect and a disconnect task of one receiver are both pending, either
\* can finish first, and the receiver is left as the one finishing decides.
C20_TasksNotSerialized ==
    /\ [][/\ on_r2_connect_cmd \/ on_r2_exit_standby =>
                /\ receivers' = receivers
                /\ tasks' = tasks \cup {Task("connect", ref) : ref \in ActiveRefs(_configured_avrs)}
          /\ on_r2_disconnect_cmd =>
                /\ receivers' = receivers
                /\ tasks' = tasks \cup {Task("disconnect", ref) : ref \in ActiveRefs(_configured_avrs)}
          /\ \A task \in tasks, state \in ReceiverStates :
                RunConnect(task, TRUE, state) => receivers'[task.ref].connected
          /\ \A task \in tasks :
                RunDisconnect(task) => ~receivers'[task.ref].connected]_vars
    /\ [](\A ref \in 1..Len(receivers) :
             (Task("connect", ref) \in tasks /\ Task("disconnect", ref) \in tasks) =>
                /\ ENABLED RunConnect(Task("connect", ref), TRUE, "avr.PLAYING")
                /\ ENABLED RunDisconnect(Task("disconnect", ref)))

\* a connect task and a disconnect task of the same receiver are pending
C20_Witness ==
    \E ref \in ActiveRefs(_configured_avrs) :
       Task("connect", ref) \in tasks /\ Task("disconnect", ref) \in tasks

-----------------------------------------------------------------------------
(* driver.py: on_avr_update and the entities of a receiver *)

\* the delta of a configured entity for an update
OwnDelta(self, upd) ==
    IF self.entity_type = "media_player"
    THEN filter_changed_attributes(self, upd)
    ELSE remote_filter_changed_attributes(self, upd)

\* C16: on_avr_update sends each configured entity of the receiver exactly
\* its own delta, and nothing when that delta is empty, also to the remote
\* entity when the media-player entity is not configured.
C16_EachConfiguredEntityGetsItsDelta ==
    [][on_avr_update =>
          LET avr_id == Head(events).avr_id
              payload == Head(events).payload
              entity_ids == _entities_from_avr(avr_id)
          IN  \/ payload = None /\ avr_id \notin DOMAIN _configured_avrs
              \/ LET upd == IF payload = None
                            THEN Snapshot(receivers[_configured_avrs[avr_id]])
                            ELSE Val(payload)
                 IN  \A i \in 1..Len(entity_ids) :
                        entity_ids[i] \in DOMAIN configured_entities =>
                           LET own == OwnDelta(configured_entities[entity_ids[i]], upd)
                               sent == {j \in 1..Len(writes') :
                                           writes'[j].entity_id = entity_ids[i]}
                           IN  IF own = EmptyDict
                               THEN sent = {}
                               ELSE /\ Cardinality(sent) = 1
                                    /\ \A j \in sent : writes'[j].attributes = own]_vars

-----------------------------------------------------------------------------
(* driver.py: devices removed and added again *)

\* room for the receiver of a removed device and the one of a device added
\* after it
MaxLifecycleReceivers == 2

InitLifecycle ==
    /\ entity = None /\ update = EmptyDict /\ delta = EmptyDict /\ phase = "idle"
    /\ receiver = [muted |-> FALSE] /\ cmd = None /\ result = "none" /\ calls = <<>>
    /\ devices \in SUBSET AvrIds
    /\ \E remote_state \in RemoteInitialStates :
          LET st == ConfigureAll(EmptyStore, devices, 1, remote_state)
          IN  /\ _configured_avrs = st.avrs
              /\ receivers = st.receivers
              /\ available_entities = st.available
              /\ configured_entities = st.configured
              /\ shared = st.shared
              /\ tasks = st.tasks
              /\ events = st.events
              /\ writes = st.writes
    /\ _R2_IN_STANDBY = FALSE
    /\ suspended = {}
    /\ lastOp = Other
    /\ standby = StandbyIdle
    /\ poller = PollerIdle
    /\ limits = [receivers |-> MaxLifecycleReceivers, events |-> MaxEvents, tasks |-> MaxTasks,
                 deliver |-> TRUE]

NextLifecycle ==
    \/ \E avr_id \in AvrIds, remote_state \in RemoteInitialStates :
          on_device_added(avr_id, remote_state)
    \/ \E avr_id \in AvrIds : on_device_removed(avr_id)
    \/ on_device_removed_None
    \/ \E task \in tasks : _async_remove_disconnect(task)
    \/ \E task \in tasks : _async_remove_listeners(task)
    \/ \E entity_ids \in EntityIdLists, remote_state \in RemoteInitialStates :
          on_subscribe_entities(entity_ids, remote_state)
    \/ on_r2_connect_cmd
    \/ \E task \in tasks, ok \in BOOLEAN, state \in ReceiverStates : RunConnect(task, ok, state)
    \/ \E task \in tasks : RunDisconnect(task)
    \/ on_avr_connected_begin
    \/ \E avr_id \in AvrIds : on_avr_connected(avr_id)
    \/ on_avr_disconnected
    \/ on_avr_connection_error

SpecLifecycle == InitLifecycle /\ [][NextLifecycle]_vars

\* a device removal issues _async_remove for the receiver, takes the receiver
\* out of the active set and its entities out of both registries
RemovalIssued ==
    /\ \A avr_id \in AvrIds :
          on_device_removed(avr_id) /\ avr_id \in DOMAIN _configured_avrs =>
             /\ Task("_async_remove", _configured_avrs[avr_id]) \in tasks'
             /\ avr_id \notin DOMAIN _configured_avrs'
             /\ EntitiesOf(avr_id) \cap (DOMAIN configured_entities' \cup
                                         DOMAIN available_entities') = {}
    /\ on_device_removed_None =>
          /\ \A ref \in ActiveRefs(_configured_avrs) : Task("_async_remove", ref) \in tasks'
          /\ _configured_avrs' = EmptyDict
          /\ configured_entities' = EmptyDict /\ available_entities' = EmptyDict
    /\ \A task \in tasks :
          _async_remove_disconnect(task) =>
             /\ ~receivers'[task.ref].connected
             /\ Task("_async_remove.resumed", task.ref) \in tasks'
    /\ \A task \in tasks :
          _async_remove_listeners(task) => receivers'[task.ref].listeners = EmptyDict

\* an event of a receiver that is not in the active set writes no attribute
NoWriteByRemoved ==
    (/\ on_avr_disconnected \/ on_avr_connection_error
     /\ Head(events).source \notin ActiveRefs(_configured_avrs)) => writes' = <<>>

\* C17: removing a device issues a disconnect followed by listener removal
\* for its receiver, takes the receiver out of the active set and its
\* entities out of the configured and the available registry, and no later
\* event of that receiver writes an entity attribute.
C17_RemovedDeviceIsGone == [][RemovalIssued /\ NoWriteByRemoved]_vars

\* the driver's listeners on a receiver: each of the five once
FiveListeners ==
    [event \in {"connected", "disconnected", "error", "update", "ip_address_changed"} |-> 1]

\* C18: every receiver of the active set belongs to a stored device, is the
\* only one of that device and has each of the driver's five listeners
\* exactly once; and as long as a device stays configured its receiver stays
\* in the active set and is never replaced by another instance.
C18_OneReceiverPerDevice ==
    /\ [](\A a \in DOMAIN _configured_avrs :
             /\ a \in devices
             /\ _configured_avrs[a] \in 1..Len(receivers)
             /\ receivers[_configured_avrs[a]].id = a
             /\ receivers[_configured_avrs[a]].listeners = FiveListeners
             /\ \A b \in DOMAIN _configured_avrs :
                   _configured_avrs[a] = _configured_avrs[b] => a = b)
    /\ [][\A a \in DOMAIN _configured_avrs :
             a \in devices' =>
                /\ a \in DOMAIN _configured_avrs'
                /\ _configured_avrs'[a] = _configured_avrs[a]]_vars

\* a second receiver was constructed for a device that was removed and added
\* again, and a subscription found it in the active set
C18_Witness ==
    /\ lastOp.op = "on_subscribe_entities"
    /\ lastOp.errors = <<>>
    /\ Len(receivers) = 2
    /\ \E a \in DOMAIN _configured_avrs :
          /\ _configured_avrs[a] = 2
          /\ receivers[1].id = a
          /\ writes # <<>>

\* C19: on_r2_enter_standby tolerates a device being added or removed while
\* it is suspended in a disconnect: it never ends with an error.
C19_StandbyToleratesMembershipChange == standby.last # "RuntimeError"

-----------------------------------------------------------------------------
(* driver.py: standby with two receivers *)

\* two devices, so that on_r2_enter_standby has a second receiver to go on to
MaxStandbyDevices == 2

StandbyAvrIds == {DeviceNames[i] : i \in 1..MaxStandbyDevices}

InitStandbyPair ==
    /\ entity = None /\ update = EmptyDict /\ delta = EmptyDict /\ phase = "idle"
    /\ receiver = [muted |-> FALSE] /\ cmd = None /\ result = "none" /\ calls = <<>>
    /\ devices \in SUBSET StandbyAvrIds
    /\ \E remote_state \in RemoteInitialStates :
          LET st == ConfigureAll(EmptyStore, devices, 1, remote_state)
          IN  /\ _configured_avrs = st.avrs
              /\ receivers = st.receivers
              /\ available_entities = st.available
              /\ configured_entities = st.configured
              /\ shared = st.shared
              /\ tasks = st.tasks
              /\ events = st.events
              /\ writes = st.writes
    /\ _R2_IN_STANDBY = FALSE
    /\ suspended = {}
    /\ lastOp = Other
    /\ standby = StandbyIdle
    /\ poller = PollerIdle
    /\ limits = [receivers |-> MaxStandbyDevices, events |-> MaxEvents,
                 tasks |-> MaxStandbyTasks, deliver |-> FALSE]

NextStandbyPair ==
    \/ on_r2_enter_standby_begin
    \/ on_r2_enter_standby
    \/ on_r2_exit_standby
    \/ \E entity_ids \in EntityIdLists, remote_state \in RemoteInitialStates :
          on_subscribe_entities(entity_ids, remote_state)
    \/ on_r2_connect_cmd
    \/ \E task \in tasks, ok \in BOOLEAN, state \in ReceiverStates : RunConnect(task, ok, state)

SpecStandbyPair == InitStandbyPair /\ [][NextStandbyPair]_vars

-----------------------------------------------------------------------------
(* media_player.py: filter_changed_attributes run again after its delta was *)
(* applied                                                                  *)

\* C21: once the delta returned by filter_changed_attributes has been applied
\* to the entity's attributes, filter_changed_attributes with the same update
\* returns an empty delta.
C21_Idempotent ==
    phase = "updated" => filter_changed_attributes(entity, update) = EmptyDict

-----------------------------------------------------------------------------
(* driver.py: the receiver events applied to a configured media-player      *)
(* entity                                                                   *)

\* the payloads of the update events: partial updates of at most
\* MaxUpdateKeys of the state, the title and the source
EntityPayloads ==
    UNION {UpdatesOver(K) :
              K \in {S \in SUBSET {Attributes_STATE, Attributes_MEDIA_TITLE, Attributes_SOURCE} :
                        Cardinality(S) <= MaxUpdateKeys}}

\* the receiver reports a change of some of its properties, or that its
\* connection was made, was closed or failed
ReceiverEmits(ref, name, payload) ==
    /\ ref \in 1..Len(receivers)
    /\ Commit(emit(Store, ref, name, payload))
    /\ lastOp' = Other
    /\ UNCHANGED <<devices, _R2_IN_STANDBY, suspended>>
    /\ NoSideVars

NextEntity ==
    \/ \E entity_ids \in EntityIdLists, remote_state \in RemoteInitialStates :
          on_subscribe_entities(entity_ids, remote_state)
    \/ \E ref \in 1..MaxReceivers, payload \in EntityPayloads :
          ReceiverEmits(ref, "update", Some(payload))
    \/ \E ref \in 1..MaxReceivers, name \in {"connected", "disconnected", "error"} :
          ReceiverEmits(ref, name, None)
    \/ on_avr_connected_begin
    \/ \E avr_id \in AvrIds : on_avr_connected(avr_id)
    \/ on_avr_disconnected
    \/ on_avr_connection_error
    \/ on_avr_update

SpecEntity == Init /\ [][NextEntity]_vars

\* C22: whenever the recorded state of a configured media-player entity is
\* OFF, its recorded image URL, album, artist, title and source are all the
\* empty string.
C22_OffIsCleared ==
    \A entity_id \in DOMAIN configured_entities :
        LET e == configured_entities[entity_id]
        IN  (e.entity_type = "media_player" /\ e.attributes[Attributes_STATE] = Some("OFF"))
            => \A k \in {Attributes_MEDIA_IMAGE_URL, Attributes_MEDIA_ALBUM,
                         Attributes_MEDIA_ARTIST, Attributes_MEDIA_TITLE, Attributes_SOURCE} :
                  e.attributes[k] = Some("")

-----------------------------------------------------------------------------
(* media_player.py: filter_changed_attributes statement by statement, over  *)
(* the mappings it can reach                                                *)

\* variant: the store goes to self.attributes
setitem_SelfAttributes(h, key, value) ==
    [h EXCEPT !.self_attributes = Put(@, key, value)]

\* attributes[key] = value
setitem(h, key, value) == [h EXCEPT !.attributes = Put(@, key, value)]

\* self._key_update_helper(key, value, attributes)
KeyUpdateRun(h, key, value) ==
    IF value = None
    THEN h
    ELSE IF key \in DOMAIN h.self_attributes
         THEN IF h.self_attributes[key] # value
              THEN setitem(h, key, value)
              ELSE h
         ELSE setitem(h, key, value)

\* for attr in [...]: if attr in update
RECURSIVE LoopRun(_, _)
LoopRun(h, i) ==
    IF i > Len(LoopAttributes)
    THEN h
    ELSE LET attr == LoopAttributes[i]
         IN  LoopRun(IF attr \in DOMAIN h.update
                     THEN KeyUpdateRun(h, attr, h.update[attr])
                     ELSE h,
                     i + 1)

\* if key in update: if key in self.attributes: if update[key] != self.attributes[key]
ListRun(h, key) ==
    IF key \in DOMAIN h.update
    THEN IF key \in DOMAIN h.self_attributes
         THEN IF h.update[key] # h.self_attributes[key]
              THEN setitem(h, key, h.update[key])
              ELSE h
         ELSE h
    ELSE h

\* if Features.SELECT_SOUND_MODE in self.features
SoundModeRun(h, features) ==
    IF SELECT_SOUND_MODE \in features
    THEN ListRun(IF Attributes_SOUND_MODE \in DOMAIN h.update
                 THEN KeyUpdateRun(h, Attributes_SOUND_MODE, h.update[Attributes_SOUND_MODE])
                 ELSE h,
                 Attributes_SOUND_MODE_LIST)
    ELSE h

\* if Attributes.STATE in attributes: if attributes[Attributes.STATE] == States.OFF:
\* the six stores, in their order
OffRun(h) ==
    IF Attributes_STATE \in DOMAIN h.attributes
    THEN IF h.attributes[Attributes_STATE] = Some("OFF")
         THEN setitem(setitem(setitem(setitem(setitem(setitem(h,
                  Attributes_MEDIA_IMAGE_URL, Some("")),
                  Attributes_MEDIA_ALBUM, Some("")),
                  Attributes_MEDIA_ARTIST, Some("")),
                  Attributes_MEDIA_TITLE, Some("")),
                  Attributes_MEDIA_TYPE, Some("")),
                  Attributes_SOURCE, Some(""))
         ELSE h
    ELSE h

\* filter_changed_attributes(update): the mappings when it returns
\* attributes.  It starts with the entity's recorded attributes, the
\* caller's update and the local attributes = {}
FilterRun(self, upd) ==
    LET h0 == [self_attributes |-> self.attributes, update |-> upd, attributes |-> EmptyDict]
        h1 == IF Attributes_STATE \in DOMAIN h0.update
              THEN KeyUpdateRun(h0, Attributes_STATE, state_from_avr(h0.update[Attributes_STATE]))
              ELSE h0
    IN  OffRun(SoundModeRun(ListRun(LoopRun(h1, 1), Attributes_SOURCE_LIST), self.features))

\* attributes = configured_entity.filter_changed_attributes(update), with
\* what the call leaves in the entity and in the update
FilterCall ==
    /\ phase = "start"
    /\ LET h == FilterRun(entity, update)
       IN  /\ entity' = [entity EXCEPT !.attributes = h.self_attributes]
           /\ update' = h.update
           /\ delta' = h.attributes
    /\ phase' = "filtered"
    /\ UNCHANGED <<cmdVars, driverVars>>

NextPure == FilterCall \/ UpdateAttributes

SpecPure == InitSync /\ [][NextPure]_vars

\* C23: the call of filter_changed_attributes changes neither the entity's
\* recorded attributes nor the update, and returns the delta determined by
\* the two; the recorded attributes change only in the caller's
\* update_attributes, which merges the delta into them.
C23_Pure ==
    [][/\ update' = update
       /\ phase = "start" =>
             /\ entity' = entity
             /\ delta' = filter_changed_attributes(entity, update)
       /\ entity'.attributes # entity.attributes =>
             /\ phase = "filtered" /\ phase' = "updated"
             /\ entity'.attributes = Merge(entity.attributes, delta)]_vars

\* the call has returned a delta that sets the state to OFF and clears the
\* media fields, and the entity still records another state
C23_Witness ==
    /\ phase = "filtered"
    /\ Attributes_STATE \in DOMAIN delta
    /\ delta[Attributes_STATE] = Some("OFF")
    /\ delta[Attributes_MEDIA_TITLE] = Some("")
    /\ entity.attributes[Attributes_STATE] # Some("OFF")
    /\ Attributes_STATE \in DOMAIN update

====
